---- MODULE Spec2Model ----
\* Verification model of the Fly worker import orchestrator:
\* GooglePhotosImportService (createImportJobWithFlyWorker, handleWorkerWebhook,
\* cancelWorkerJob, cleanupWorkerJob), GooglePhotosImportController
\* (receiveWorkerWebhook) and FlyWorkerService (createWorker, cleanupWorker).
\*
\* Every handler is an async function; it is cut at the awaits at which the
\* metadata store, the API key repository or the Fly API is read or written,
\* so that concurrent requests interleave exactly where the code lets them.
EXTENDS Integers, Sequences, FiniteSets, TLC

\* ---------------------------------------------------------------- bounds
\* events passed to addEvent when it is studied on its own
MaxInsertions == 104
\* files in the list given to calculateVolumeSizeGb when it is studied on its own
MaxFiles == 2
\* the numbers in the values given to stableStringify when it is studied on its own
MaxNum == 2

\* webhook and Cancel requests that follow the Start request, when the teardown
\* calls of the Fly API and of the key repository succeed (Spec) and when they
\* may fail (SpecFaulty)
MaxRequests == 2
MaxFaultyRequests == 1

\* ------------------------------------------------------------- constants
EventCap == 100
HexDigestLen == 64

\* The job created by the one Start request, and an id no Start ever issued.
Jobs == {"j1"}
UnknownJob == "j0"
AllJobIds == Jobs \cup {UnknownJob}

\* the requests: one Start, and the webhook and Cancel requests that follow it
StartProc == 0
RequestProcs == 1..(IF MaxRequests > MaxFaultyRequests THEN MaxRequests ELSE MaxFaultyRequests)
Procs == {StartProc} \cup RequestProcs

\* undefined optional numbers / strings of the webhook payload
UndefNum == 0 - 1
NoFile == ""

NoJob == [status |-> "none"]

FlyWorkerJobStatus ==
  {"pending", "creating", "downloading", "processing", "complete", "failed", "cleanup"}

Phases == {"downloading", "processing", "complete", "failed"}

TerminalStatus == {"complete", "failed", "cleanup"}

MachineIdOf(j) == "machine-" \o j
VolumeIdOf(j) == "volume-" \o j
KeyIdOf(j) == "key-" \o j
SecretOf(j) == "secret-" \o j

VARIABLES
  store,               \* systemMetadataRepository: job id -> FlyWorkerJobMetadata
  pc,                  \* position of every request / background task
  snap,                \* the `job` object a request holds between its awaits
  op,                  \* what a request slot was used for: none / webhook / cancel
  job,                 \* the job id a request is about
  result,              \* what the request returned or threw to its caller
  key,                 \* temporary API key of the job: none / live / revoked
  machine,             \* Fly machine of the job: none / live / gone
  volume,              \* Fly volume of the job: none / live / gone
  revokeCalls,         \* apiKeyRepository.delete invocations per job
  destroyMachineCalls, \* FlyWorkerService.destroyMachine invocations per job
  deleteVolumeCalls,   \* FlyWorkerService.deleteVolume invocations per job
  sigGood,             \* history: the request named a stored job and carried
                       \* HMAC(secret of that job, canonical payload)
  clhist,              \* history of the cleanup run by each request
  faulty,              \* the environment: teardown calls may fail
  config,              \* the environment: the owner's drive tokens, the system config
  hist,                \* history flags used to state the claims
  body,                \* the payload argument of a webhook request being handled
  prov,                \* createWorker: its calls to the Fly API and its locals
                       \* volumeId and machineId
  response,            \* the FlyWorkerJobResponseDto Start returned
  deleteVolumeArgs,    \* the volume ids FlyWorkerService.deleteVolume was called with
  progressDto,         \* what getWorkerJobProgress returned last
  timeline,            \* addEvent on its own: job.progress.events
  inserted,            \* addEvent on its own: every event ever passed to it
  obj,                 \* stableStringify on its own: the two values given to it
  out,                 \* stableStringify on its own: the two strings it gave
  fileSizes,           \* calculateVolumeSizeGb on its own: its argument
  sizeGb,              \* calculateVolumeSizeGb on its own: its result
  records,             \* two jobs side by side: the metadata store, job id -> record
  lastWebhook,         \* two jobs side by side: the last webhook request and its answer
  webhooksServed,      \* two jobs side by side: the webhook requests served so far
  flyMachine,          \* cleanupWorker on its own: the machine at the Fly API
  flyVolume,           \* cleanupWorker on its own: the volume at the Fly API
  cw,                  \* cleanupWorker on its own: its position and what its calls answered
  flyLog,              \* cleanupWorker on its own: the requests each call sent to the Fly API
  elapsed,             \* cleanupWorker on its own: milliseconds since setTimeout was called
  localJob,            \* the in-memory import: the ImportJob held in this.jobs
  proc,                \* the in-memory import: position and locals of processImportJob
  immichGo,            \* the in-memory import: the immich-go child process
  cancelPc             \* the in-memory import: position of the cancelJob call

functionVars == <<timeline, inserted, obj, out, fileSizes, sizeGb>>
twoJobVars == <<records, lastWebhook, webhooksServed>>
flyVars == <<flyMachine, flyVolume, cw, flyLog, elapsed>>
localVars == <<localJob, proc, immichGo, cancelPc>>

pureVars == <<functionVars, twoJobVars, flyVars, localVars>>

handlerVars == <<store, pc, snap, op, job, result, key, machine, volume, revokeCalls,
                 destroyMachineCalls, deleteVolumeCalls, sigGood, clhist, faulty, hist,
                 config, body, prov, response, deleteVolumeArgs, progressDto>>

vars == <<store, pc, snap, op, job, result, key, machine, volume, revokeCalls,
          destroyMachineCalls, deleteVolumeCalls, sigGood, clhist, faulty, hist,
          config, body, prov, response, deleteVolumeArgs, progressDto, pureVars>>

world == <<key, machine, volume, revokeCalls, destroyMachineCalls, deleteVolumeCalls>>

\* ------------------------------------------------------ activity timeline
\* a cap that keeps the first entries instead of the last
addEventKeepOldest(events, type, message) ==
  LET pushed == Append(events, [type |-> type, message |-> message])
  IN IF Len(pushed) > EventCap THEN SubSeq(pushed, 1, EventCap) ELSE pushed

addEvent(events, type, message) ==
  LET pushed == Append(events, [type |-> type, message |-> message])
  IN IF Len(pushed) > EventCap
       THEN SubSeq(pushed, Len(pushed) - EventCap + 1, Len(pushed))
       ELSE pushed

RECURSIVE addErrorEvents(_, _)
addErrorEvents(events, errors) ==
  IF errors = <<>> THEN events
  ELSE addErrorEvents(addEvent(events, "error", Head(errors)), Tail(errors))

\* ------------------------------------------------------- job construction
InitialJob(j) ==
  [ jobId |-> j,
    machineId |-> "",
    volumeId |-> "",
    status |-> "creating",
    phase |-> "downloading",
    current |-> 0,
    total |-> 1,
    currentFile |-> NoFile,
    bytesDownloaded |-> UndefNum,
    totalBytes |-> UndefNum,
    albumsFound |-> 0,
    photosImported |-> 0,
    errors |-> <<>>,
    events |-> <<[type |-> "info", message |-> "Starting import job..."]>>,
    webhookSecret |-> SecretOf(j),
    tempApiKeyId |-> KeyIdOf(j) ]

\* a success branch that forgets the refs createWorker returned
StartedJobNoRefs(j) ==
  [ InitialJob(j) EXCEPT
      !.status = "downloading",
      !.events = addEvent(addEvent(@, "success", "Worker started successfully"),
                          "info", "Preparing to download files...") ]

StartedJob(j) ==
  [ InitialJob(j) EXCEPT
      !.machineId = prov.machineId,
      !.volumeId = prov.volumeId,
      !.status = "downloading",
      !.events = addEvent(addEvent(@, "success", "Worker started successfully"),
                          "info", "Preparing to download files...") ]

\* a catch branch that records no error
FailedStartJobNoError(j) == [ InitialJob(j) EXCEPT !.status = "failed" ]

FailedStartJob(j) ==
  [ InitialJob(j) EXCEPT
      !.status = "failed",
      !.errors = Append(@, "Failed to create worker") ]

\* ------------------------------------------------- webhook authentication
\* JSON.stringify with the key-sorting replacer: keys in lexicographic order at
\* every level, keys whose value is undefined left out, arrays in their order.
stableStringifyProgress(p) ==
  <<<<"current", p.current>>>>
  \o (IF p.currentFile = NoFile THEN <<>> ELSE <<<<"currentFile", p.currentFile>>>>)
  \o <<<<"total", p.total>>>>

stableStringify(payload) ==
  (IF payload.albumsFound = UndefNum THEN <<>> ELSE <<<<"albumsFound", payload.albumsFound>>>>)
  \o (IF payload.bytesDownloaded = UndefNum THEN <<>>
      ELSE <<<<"bytesDownloaded", payload.bytesDownloaded>>>>)
  \o <<<<"errors", payload.errors>>>>
  \o <<<<"jobId", payload.jobId>>>>
  \o <<<<"phase", payload.phase>>>>
  \o (IF payload.photosImported = UndefNum THEN <<>>
      ELSE <<<<"photosImported", payload.photosImported>>>>)
  \o <<<<"progress", stableStringifyProgress(payload.progress)>>>>
  \o (IF payload.totalBytes = UndefNum THEN <<>> ELSE <<<<"totalBytes", payload.totalBytes>>>>)

\* createHmac('sha256', secret).update(message).digest('hex'): a 64 character
\* digest that is determined by, and determines, the pair (secret, message).
\* `flip` numbers the digests that differ from it in one bit.
Hmac(secret, message) ==
  [len |-> HexDigestLen, secret |-> secret, message |-> message, flip |-> 0]

FlipBit(sig) == [sig EXCEPT !.flip = 1]

ShortSignature == [len |-> 3, secret |-> "", message |-> <<>>, flip |-> 0]
AbsentSignature == [len |-> 0, secret |-> "", message |-> <<>>, flip |-> 0]

\* a comparison that stops one bit short of the end
timingSafeEqualButLastBit(a, b) ==
  IF a.len # b.len THEN "RangeError"
  ELSE IF [a EXCEPT !.flip = 0] = [b EXCEPT !.flip = 0] THEN "equal" ELSE "different"

\* crypto.timingSafeEqual: throws a RangeError for buffers of different length
timingSafeEqual(a, b) ==
  IF a.len # b.len THEN "RangeError"
  ELSE IF a = b THEN "equal" ELSE "different"

\* a signature check that logs the mismatch and goes on
VerifySignatureLogOnly(signature, secret, payload) ==
  LET expectedSignature == Hmac(secret, stableStringify(payload))
      cmp == timingSafeEqual(signature, expectedSignature)
  IN IF cmp = "RangeError" THEN "RangeError" ELSE "ok"

\* handleWorkerWebhook, the signature check: "ok" or the error thrown
VerifySignature(signature, secret, payload) ==
  LET expectedSignature == Hmac(secret, stableStringify(payload))
      cmp == timingSafeEqual(signature, expectedSignature)
  IN IF cmp = "RangeError" THEN "RangeError"
     ELSE IF cmp = "different" THEN "Invalid signature"
     ELSE "ok"

\* ------------------------------------------------------- webhook payloads
Payload(j, phase, errors) ==
  [ jobId |-> j,
    phase |-> phase,
    progress |-> [current |-> 1, total |-> 1, currentFile |-> NoFile],
    bytesDownloaded |-> UndefNum,
    totalBytes |-> UndefNum,
    photosImported |-> UndefNum,
    albumsFound |-> UndefNum,
    errors |-> errors ]

\* what arrives: the phase the worker is in, with an empty error list
Payloads ==
  { Payload(j, phase, <<>>) : j \in AllJobIds, phase \in {"processing", "complete", "failed"} }

\* a progress report of the worker: it is at file `current` of 10
FileOf(current) == "file" \o ToString(current) \o ".zip"

ProgressPayload(j, phase, current) ==
  [ Payload(j, phase, <<>>) EXCEPT
      !.progress = [current |-> current, total |-> 10, currentFile |-> FileOf(current)] ]

ProgressPayloads ==
  { ProgressPayload(j, phase, current) :
      j \in Jobs, phase \in {"downloading", "processing"}, current \in {3, 5} }

\* a payload other than p, over which a presented signature may have been computed
OtherPayload(p) ==
  [p EXCEPT !.phase = IF p.phase = "complete" THEN "failed" ELSE "complete"]

\* the signature the worker of the payload's job computes
WorkerSignature(p) == Hmac(SecretOf(p.jobId), stableStringify(p))

\* the signatures a request that does not come from the job's worker can carry
ForgedSignatures(p) ==
  { Hmac(SecretOf(p.jobId), stableStringify(OtherPayload(p))),
    Hmac(SecretOf(UnknownJob), stableStringify(p)),
    FlipBit(WorkerSignature(p)),
    ShortSignature,
    AbsentSignature }

\* The webhook requests that can arrive: a worker knows the id and the secret
\* of its own job, and exists once its machine was created; anybody else knows
\* no secret and may name any job.
Requests ==
  { <<p, WorkerSignature(p)>> :
      p \in {q \in Payloads : q.jobId \in Jobs /\ machine[q.jobId] # "none"} }
  \cup UNION { { <<p, sg>> : sg \in ForgedSignatures(p) } :
                 p \in {q \in Payloads : q.phase = "complete"} }

\* what arrives when the reports of a job are looked at one by one: the
\* requests above and the progress reports of the job's worker
RequestsInOrder ==
  Requests
  \cup { <<p, WorkerSignature(p)>> :
           p \in {q \in ProgressPayloads : machine[q.jobId] # "none"} }

\* ------------------------------------------------- handleWorkerWebhook merge
PhaseEvents(events, phase, prevPhase, payload, photosImported) ==
  IF phase = prevPhase THEN events
  ELSE IF phase = "downloading"
    THEN addEvent(events, "info", "Starting file downloads from Google Drive...")
  ELSE IF phase = "processing"
    THEN addEvent(addEvent(events, "success",
                           "Downloaded " \o ToString(payload.progress.total) \o " files"),
                  "info", "Processing with immich-go...")
  ELSE IF phase = "complete"
    THEN addEvent(events, "success",
                  "Import complete! " \o ToString(photosImported) \o " photos imported.")
  ELSE IF phase = "failed"
    THEN addEvent(events, "error", "Import failed")
  ELSE events

\* a merge that ignores a report whose `current` is behind the stored one
MergeProgressNewerOnly(j, payload) ==
  IF payload.progress.current < j.current THEN j
  ELSE [ j EXCEPT
           !.status = payload.phase,
           !.phase = payload.phase,
           !.current = payload.progress.current,
           !.total = payload.progress.total,
           !.currentFile = payload.progress.currentFile ]

\* a merge that leaves the status of a job that has ended as it is
MergeProgressKeepsEndedStatus(j, payload) ==
  [ j EXCEPT
      !.status = IF j.status \in TerminalStatus THEN j.status ELSE payload.phase,
      !.phase = payload.phase,
      !.current = payload.progress.current,
      !.total = payload.progress.total,
      !.currentFile = payload.progress.currentFile,
      !.errors = j.errors \o payload.errors,
      !.events = addErrorEvents(j.events, payload.errors) ]

\* a merge that stores the reported error list in place of the old one
MergeProgressReplaceErrors(j, payload) ==
  [ j EXCEPT
      !.status = payload.phase,
      !.phase = payload.phase,
      !.current = payload.progress.current,
      !.total = payload.progress.total,
      !.currentFile = payload.progress.currentFile,
      !.errors = payload.errors,
      !.events = addErrorEvents(j.events, payload.errors) ]

MergeProgress(j, payload) ==
  LET prevPhase == j.phase
      prevCurrent == j.current
      photos == IF payload.photosImported # UndefNum THEN payload.photosImported
                ELSE j.photosImported
      albums == IF payload.albumsFound # UndefNum THEN payload.albumsFound
                ELSE j.albumsFound
      ev1 == addErrorEvents(j.events, payload.errors)
      ev2 == PhaseEvents(ev1, payload.phase, prevPhase, payload, photos)
      ev3 == IF payload.phase = "downloading"
                /\ payload.progress.currentFile # NoFile
                /\ payload.progress.current # prevCurrent
               THEN addEvent(ev2, "download", "Downloading " \o payload.progress.currentFile)
               ELSE ev2
      \* the comparison reads job.progress.albumsFound after it was overwritten
      ev4 == IF payload.albumsFound # UndefNum /\ payload.albumsFound > albums
               THEN addEvent(ev3, "album",
                             "Found " \o ToString(payload.albumsFound) \o " albums")
               ELSE ev3
  IN [ j EXCEPT
         !.status = payload.phase,
         !.phase = payload.phase,
         !.current = payload.progress.current,
         !.total = payload.progress.total,
         !.currentFile = payload.progress.currentFile,
         !.bytesDownloaded = payload.bytesDownloaded,
         !.totalBytes = payload.totalBytes,
         !.photosImported = photos,
         !.albumsFound = albums,
         !.errors = j.errors \o payload.errors,
         !.events = ev4 ]

\* a check that takes the signature of any stored job's secret
WebhookCheckAnySecret(signature, payload, stored) ==
  IF signature = AbsentSignature THEN "Missing webhook signature"
  ELSE IF stored = NoJob THEN "Job not found"
  ELSE IF \E k \in DOMAIN records :
            VerifySignature(signature, records[k].webhookSecret, payload) = "ok"
    THEN "ok"
  ELSE VerifySignature(signature, stored.webhookSecret, payload)

\* receiveWorkerWebhook + handleWorkerWebhook up to the signature check:
\* "ok" or the error the request fails with
WebhookCheck(signature, payload, stored) ==
  IF signature = AbsentSignature THEN "Missing webhook signature"
  ELSE IF stored = NoJob THEN "Job not found"
  ELSE VerifySignature(signature, stored.webhookSecret, payload)

\* a cancellation that forgets the error entry
CancelledJobNoError(j) == [ j EXCEPT !.status = "failed" ]

\* cancelWorkerJob: the record it persists
CancelledJob(j) ==
  [ j EXCEPT !.status = "failed", !.errors = Append(@, "Cancelled by user") ]

\* a cleanup that also clears the progress counter
CleanupJobResetsCurrent(j) == [ j EXCEPT !.status = "cleanup", !.current = 0 ]

\* cleanupWorkerJob: the record it persists, first and last
CleanupJob(j) == [ j EXCEPT !.status = "cleanup" ]

\* ------------------------------------------------------------------ Init
NoHist ==
  [ cancelMidProvision |-> FALSE,  \* a Cancel read the job while Start was provisioning
    terminalAfterStart |-> FALSE,  \* a terminal webhook or a Cancel came after Start returned
    apiFailed |-> FALSE ]          \* the credential issuer or the Fly API answered with an error

\* what is remembered of the cleanup a request ran
NoCleanup ==
  [ afterRevoked |-> FALSE,  \* it began after another cleanup of the job had returned,
                             \* one whose revocation had reported success
    cancelledLive |-> FALSE, \* it is a Cancel that read a record in a non-terminal status
    calledRevoke |-> FALSE,  \* it invoked apiKeyRepository.delete
    revokedOk |-> FALSE ]    \* and that invocation reported success

\* no webhook payload; createWorker not called; Start has not returned
NoBody == [phase |-> "none"]
NoProv == [createVolumeCalls |-> 0, createMachineCalls |-> 0, volumeId |-> "", machineId |-> ""]
NoResponse == [id |-> ""]

\* getWorkerJobProgress has not been called
NoProgress == [phase |-> "none"]

\* what Start looks up before it creates anything: the owner's Google Drive
\* tokens, config.oauth and the server url
StartConfigs ==
  [ tokens : BOOLEAN, oauthEnabled : BOOLEAN, clientId : BOOLEAN,
    clientSecret : BOOLEAN, serverUrl : BOOLEAN ]

\* the functions under study on their own are not running
FunctionsIdle ==
  /\ timeline = <<>>
  /\ inserted = <<>>
  /\ obj = <<>>
  /\ out = <<>>
  /\ fileSizes = <<>>
  /\ sizeGb = UndefNum

\* no webhook request; no cleanupWorker call; no in-memory import
NoWebhook == [answer |-> "none"]
NoCall == [pc |-> "idle"]
NoProc == [pc |-> "idle"]

TwoJobsIdle ==
  /\ records = <<>>
  /\ lastWebhook = NoWebhook
  /\ webhooksServed = 0

FlyIdle ==
  /\ flyMachine = "none"
  /\ flyVolume = "none"
  /\ cw = NoCall
  /\ flyLog = <<>>
  /\ elapsed = UndefNum

LocalIdle ==
  /\ localJob = NoJob
  /\ proc = NoProc
  /\ immichGo = "none"
  /\ cancelPc = "idle"

PureIdle == FunctionsIdle /\ TwoJobsIdle /\ FlyIdle /\ LocalIdle

\* no request has been made yet
HandlersInit(f, configs) ==
  /\ faulty = f
  /\ config \in configs
  /\ body = [p \in Procs |-> NoBody]
  /\ prov = NoProv
  /\ response = NoResponse
  /\ deleteVolumeArgs = {}
  /\ progressDto = NoProgress
  /\ store = [j \in AllJobIds |-> NoJob]
  /\ pc = [p \in Procs |-> "idle"]
  /\ snap = [p \in Procs |-> NoJob]
  /\ op = [p \in Procs |-> "none"]
  /\ job = [p \in Procs |-> UnknownJob]
  /\ result = [p \in Procs |-> "none"]
  /\ key = [j \in Jobs |-> "none"]
  /\ machine = [j \in Jobs |-> "none"]
  /\ volume = [j \in Jobs |-> "none"]
  /\ revokeCalls = [j \in Jobs |-> 0]
  /\ destroyMachineCalls = [j \in Jobs |-> 0]
  /\ deleteVolumeCalls = [j \in Jobs |-> 0]
  /\ sigGood = [p \in Procs |-> FALSE]
  /\ clhist = [p \in Procs |-> NoCleanup]
  /\ hist = NoHist

InitWith(f) == HandlersInit(f, StartConfigs) /\ PureIdle

Init == InitWith(FALSE)
InitFaulty == InitWith(TRUE)

\* the request slots the environment uses, one after the other
Slots == 1..(IF faulty THEN MaxFaultyRequests ELSE MaxRequests)

FreeSlot(i) ==
  /\ i \in Slots
  /\ pc[i] = "idle"
  /\ \A h \in Slots : h < i => pc[h] # "idle"

\* what a teardown call can answer
TeardownAnswers == IF faulty THEN BOOLEAN ELSE {TRUE}

\* --------------------------------------- createImportJobWithFlyWorker (Start)
\* a check of the prerequisites that looks at the drive tokens only
CheckPrerequisitesTokensOnly(cfg) ==
  IF ~cfg.tokens THEN "Google Drive not connected" ELSE "ok"

\* the checks made before the temporary API key is minted: "ok" or the error thrown
CheckPrerequisites(cfg) ==
  IF ~cfg.tokens THEN "Google Drive not connected"
  ELSE IF ~cfg.oauthEnabled \/ ~cfg.clientId \/ ~cfg.clientSecret THEN "OAuth not configured"
  ELSE "ok"

\* a Start that saves the record only once createWorker has answered
StartBeginNoSave(j) ==
  /\ pc[StartProc] = "idle"
  /\ LET check == CheckPrerequisites(config)
     IN /\ job' = [job EXCEPT ![StartProc] = j]
        /\ IF check # "ok"
             THEN /\ pc' = [pc EXCEPT ![StartProc] = "done"]
                  /\ result' = [result EXCEPT ![StartProc] = check]
                  /\ UNCHANGED key
           ELSE IF ~config.serverUrl
             THEN /\ key' = [key EXCEPT ![j] = "live"]
                  /\ pc' = [pc EXCEPT ![StartProc] = "done"]
                  /\ result' = [result EXCEPT ![StartProc] = "IMMICH_URL not configured"]
           ELSE /\ key' = [key EXCEPT ![j] = "live"]
                /\ pc' = [pc EXCEPT ![StartProc] = "createVolume"]
                /\ UNCHANGED result
  /\ UNCHANGED <<pureVars, progressDto, config, prov, response, deleteVolumeArgs, body, store,
                 faulty, op, snap, machine, volume, revokeCalls, destroyMachineCalls,
                 deleteVolumeCalls, sigGood, clhist, hist>>

\* from the call up to the first write of the record
StartBegin(j) ==
  /\ pc[StartProc] = "idle"
  /\ LET check == CheckPrerequisites(config)
     IN /\ job' = [job EXCEPT ![StartProc] = j]
        /\ IF check # "ok"
             THEN /\ pc' = [pc EXCEPT ![StartProc] = "done"]
                  /\ result' = [result EXCEPT ![StartProc] = check]
                  /\ UNCHANGED <<store, key>>
           ELSE IF ~config.serverUrl
             THEN /\ key' = [key EXCEPT ![j] = "live"]
                  /\ pc' = [pc EXCEPT ![StartProc] = "done"]
                  /\ result' = [result EXCEPT ![StartProc] = "IMMICH_URL not configured"]
                  /\ UNCHANGED store
           ELSE /\ key' = [key EXCEPT ![j] = "live"]
                /\ store' = [store EXCEPT ![j] = InitialJob(j)]
                /\ pc' = [pc EXCEPT ![StartProc] = "createVolume"]
                /\ UNCHANGED result
  /\ UNCHANGED <<pureVars, progressDto, config, prov, response, deleteVolumeArgs, body,
                 faulty, op, snap, machine, volume, revokeCalls, destroyMachineCalls,
                 deleteVolumeCalls, sigGood, clhist, hist>>

\* FlyWorkerService.createWorker: createVolume
StartCreateVolume ==
  /\ pc[StartProc] = "createVolume"
  /\ \E ok \in BOOLEAN :
       IF ok
         THEN /\ volume' = [volume EXCEPT ![job[StartProc]] = "live"]
              /\ prov' = [prov EXCEPT !.createVolumeCalls = @ + 1,
                                      !.volumeId = VolumeIdOf(job[StartProc])]
              /\ pc' = [pc EXCEPT ![StartProc] = "createMachine"]
              /\ UNCHANGED hist
         ELSE /\ pc' = [pc EXCEPT ![StartProc] = "failSave"]
              /\ prov' = [prov EXCEPT !.createVolumeCalls = @ + 1]
              /\ hist' = [hist EXCEPT !.apiFailed = TRUE]
              /\ UNCHANGED volume
  /\ UNCHANGED <<pureVars, progressDto, config, response, deleteVolumeArgs, body,
                 faulty, op, store, snap, job, result, key, machine, revokeCalls,
                 destroyMachineCalls, deleteVolumeCalls, sigGood, clhist>>

\* FlyWorkerService.createWorker: createMachine
StartCreateMachine ==
  /\ pc[StartProc] = "createMachine"
  /\ \E ok \in BOOLEAN :
       IF ok
         THEN /\ machine' = [machine EXCEPT ![job[StartProc]] = "live"]
              /\ prov' = [prov EXCEPT !.createMachineCalls = @ + 1,
                                      !.machineId = MachineIdOf(job[StartProc])]
              /\ pc' = [pc EXCEPT ![StartProc] = "finalSave"]
              /\ UNCHANGED hist
         ELSE /\ pc' = [pc EXCEPT ![StartProc] = "rollbackVolume"]
              /\ prov' = [prov EXCEPT !.createMachineCalls = @ + 1]
              /\ hist' = [hist EXCEPT !.apiFailed = TRUE]
              /\ UNCHANGED machine
  /\ UNCHANGED <<pureVars, progressDto, config, response, deleteVolumeArgs, body,
                 faulty, op, store, snap, job, result, key, volume, revokeCalls,
                 destroyMachineCalls, deleteVolumeCalls, sigGood, clhist>>

\* a catch block that rethrows the machine failure and leaves the volume
StartRollbackVolumeNone ==
  /\ pc[StartProc] = "rollbackVolume"
  /\ pc' = [pc EXCEPT ![StartProc] = "failSave"]
  /\ hist' = [hist EXCEPT !.apiFailed = TRUE]
  /\ UNCHANGED <<pureVars, progressDto, config, prov, response, deleteVolumeArgs, body,
                 faulty, op, store, snap, job, result, key, machine, volume, revokeCalls,
                 destroyMachineCalls, deleteVolumeCalls, sigGood, clhist>>

\* FlyWorkerService.createWorker: the catch block deleting the volume
StartRollbackVolume ==
  /\ pc[StartProc] = "rollbackVolume"
  /\ \E ok \in BOOLEAN :
       /\ volume' = [volume EXCEPT ![job[StartProc]] = IF ok THEN "gone" ELSE @]
       /\ hist' = [hist EXCEPT !.apiFailed = TRUE]
  /\ deleteVolumeCalls' = [deleteVolumeCalls EXCEPT ![job[StartProc]] = @ + 1]
  /\ deleteVolumeArgs' = deleteVolumeArgs \cup {prov.volumeId}
  /\ pc' = [pc EXCEPT ![StartProc] = "failSave"]
  /\ UNCHANGED <<pureVars, progressDto, config, prov, response, body,
                 faulty, op, store, snap, job, result, key, machine, revokeCalls,
                 destroyMachineCalls, sigGood, clhist>>

\* the success branch: the local jobMetadata object is written back
StartFinalSave ==
  /\ pc[StartProc] = "finalSave"
  /\ store' = [store EXCEPT ![job[StartProc]] = StartedJob(job[StartProc])]
  /\ pc' = [pc EXCEPT ![StartProc] = "done"]
  /\ result' = [result EXCEPT ![StartProc] = "ok"]
  /\ response' = [ id |-> job[StartProc],
                   machineId |-> prov.machineId,
                   volumeId |-> prov.volumeId ]
  /\ UNCHANGED <<pureVars, progressDto, config, prov, deleteVolumeArgs, body,
                 faulty, op, snap, job, key, machine, volume, revokeCalls, destroyMachineCalls,
                 deleteVolumeCalls, sigGood, clhist, hist>>

\* the catch block: persist the failure
StartFailSave ==
  /\ pc[StartProc] = "failSave"
  /\ store' = [store EXCEPT ![job[StartProc]] = FailedStartJob(job[StartProc])]
  /\ pc' = [pc EXCEPT ![StartProc] = "failRevoke"]
  /\ UNCHANGED <<pureVars, progressDto, config, prov, response, deleteVolumeArgs, body,
                 faulty, op, snap, job, result, key, machine, volume, revokeCalls,
                 destroyMachineCalls, deleteVolumeCalls, sigGood, clhist, hist>>

\* the catch block: delete the temporary API key, then rethrow
StartFailRevoke ==
  /\ pc[StartProc] = "failRevoke"
  /\ \E ok \in TeardownAnswers :
       key' = [key EXCEPT ![job[StartProc]] = IF ok THEN "revoked" ELSE @]
  /\ revokeCalls' = [revokeCalls EXCEPT ![job[StartProc]] = @ + 1]
  /\ pc' = [pc EXCEPT ![StartProc] = "done"]
  /\ result' = [result EXCEPT ![StartProc] = "ProvisioningError"]
  /\ UNCHANGED <<pureVars, progressDto, config, prov, response, deleteVolumeArgs, body,
                 faulty, op, store, snap, job, machine, volume, destroyMachineCalls,
                 deleteVolumeCalls, sigGood, clhist, hist>>

\* ------------------------ receiveWorkerWebhook / handleWorkerWebhook (HandleWebhook)
\* From the arrival of the request to the read of the record, the signature
\* check and the merge into the request's own copy of the record.
WebhookArrive(i, request) ==
  /\ op' = [op EXCEPT ![i] = "webhook"]
  /\ LET payload == request[1]
         signature == request[2]
         stored == store[payload.jobId]
         check == WebhookCheck(signature, payload, stored)
     IN /\ job' = [job EXCEPT ![i] = payload.jobId]
        /\ sigGood' = [sigGood EXCEPT ![i] =
               /\ stored # NoJob
               /\ signature = Hmac(SecretOf(payload.jobId), stableStringify(payload))]
        /\ IF check = "ok"
             THEN /\ snap' = [snap EXCEPT ![i] = MergeProgress(stored, payload)]
                  /\ pc' = [pc EXCEPT ![i] = "webhookSave"]
                  /\ body' = [body EXCEPT ![i] = payload]
                  /\ hist' = [hist EXCEPT !.terminalAfterStart =
                        @ \/ (result[StartProc] = "ok"
                              /\ payload.phase \in {"complete", "failed"})]
                  /\ UNCHANGED result
             ELSE /\ pc' = [pc EXCEPT ![i] = "done"]
                  /\ result' = [result EXCEPT ![i] = check]
                  /\ UNCHANGED <<snap, body, hist>>
  /\ UNCHANGED <<pureVars, progressDto, config, prov, response, deleteVolumeArgs,
                 faulty, store, key, machine, volume, revokeCalls, destroyMachineCalls,
                 deleteVolumeCalls, clhist>>

WebhookReceive(i) ==
  /\ FreeSlot(i)
  /\ \E request \in Requests : WebhookArrive(i, request)

\* a handler that awaits the cleanup it starts: for a terminal phase the request
\* is answered only by what the cleanup ends with
WebhookSaveAwaitCleanup(i) ==
  /\ pc[i] = "webhookSave"
  /\ store' = [store EXCEPT ![job[i]] = snap[i]]
  /\ result' = [result EXCEPT ![i] =
        IF snap[i].phase \in {"complete", "failed"} THEN @ ELSE "ok"]
  /\ pc' = [pc EXCEPT ![i] =
        IF snap[i].phase \in {"complete", "failed"} THEN "cleanupGet" ELSE "done"]
  /\ snap' = [snap EXCEPT ![i] = NoJob]
  /\ body' = [body EXCEPT ![i] = NoBody]
  /\ UNCHANGED <<pureVars, progressDto, config, prov, response, deleteVolumeArgs,
                 faulty, op, job, key, machine, volume, revokeCalls, destroyMachineCalls,
                 deleteVolumeCalls, sigGood, clhist, hist>>

\* saveWorkerJob(job); the request returns; a terminal phase starts the cleanup
\* as a task of its own, which nobody awaits
WebhookSave(i) ==
  /\ pc[i] = "webhookSave"
  /\ store' = [store EXCEPT ![job[i]] = snap[i]]
  /\ result' = [result EXCEPT ![i] = "ok"]
  /\ pc' = [pc EXCEPT ![i] =
        IF snap[i].phase \in {"complete", "failed"} THEN "cleanupGet" ELSE "done"]
  /\ snap' = [snap EXCEPT ![i] = NoJob]
  /\ body' = [body EXCEPT ![i] = NoBody]
  /\ UNCHANGED <<pureVars, progressDto, config, prov, response, deleteVolumeArgs,
                 faulty, op, job, key, machine, volume, revokeCalls, destroyMachineCalls,
                 deleteVolumeCalls, sigGood, clhist, hist>>

\* ------------------------------------------------- cancelWorkerJob (Cancel)
CancelGet(k) ==
  /\ FreeSlot(k)
  /\ op' = [op EXCEPT ![k] = "cancel"]
  /\ \E j \in AllJobIds :
       /\ job' = [job EXCEPT ![k] = j]
       /\ IF store[j] = NoJob
            \* falls through to cancelJob, which finds no in-memory job either
            THEN /\ pc' = [pc EXCEPT ![k] = "done"]
                 /\ result' = [result EXCEPT ![k] = "ok"]
                 /\ UNCHANGED <<snap, clhist, hist>>
            ELSE /\ snap' = [snap EXCEPT ![k] = CancelledJob(store[j])]
                 /\ pc' = [pc EXCEPT ![k] = "cancelSave"]
                 /\ clhist' = [clhist EXCEPT ![k] =
                       [@ EXCEPT !.cancelledLive = store[j].status \notin TerminalStatus]]
                 /\ hist' = [hist EXCEPT
                       !.cancelMidProvision =
                          @ \/ (job[StartProc] = j
                                /\ pc[StartProc] \in {"createVolume", "createMachine"}),
                       !.terminalAfterStart =
                          @ \/ (job[StartProc] = j /\ result[StartProc] = "ok")]
                 /\ UNCHANGED result
  /\ UNCHANGED <<pureVars, progressDto, config, prov, response, deleteVolumeArgs, body,
                 faulty, store, key, machine, volume, revokeCalls, destroyMachineCalls,
                 deleteVolumeCalls, sigGood>>

CancelSave(k) ==
  /\ pc[k] = "cancelSave"
  /\ store' = [store EXCEPT ![job[k]] = snap[k]]
  /\ pc' = [pc EXCEPT ![k] = "cleanupGet"]
  /\ snap' = [snap EXCEPT ![k] = NoJob]
  /\ UNCHANGED <<pureVars, progressDto, config, prov, response, deleteVolumeArgs, body,
                 faulty, op, job, result, key, machine, volume, revokeCalls, destroyMachineCalls,
                 deleteVolumeCalls, sigGood, clhist, hist>>

\* ----------------------------------------------- cleanupWorkerJob (Cleanup)
\* run by the request p that started it: awaited by Cancel, detached for a webhook
CleanupReturn(p) ==
  IF op[p] = "cancel" THEN [result EXCEPT ![p] = "ok"] ELSE result

CleanupGet(p) ==
  /\ pc[p] = "cleanupGet"
  /\ IF store[job[p]] = NoJob
       THEN /\ pc' = [pc EXCEPT ![p] = "done"]
            /\ result' = CleanupReturn(p)
            /\ UNCHANGED <<snap, clhist>>
       ELSE /\ snap' = [snap EXCEPT ![p] = CleanupJob(store[job[p]])]
            /\ pc' = [pc EXCEPT ![p] = "cleanupMark"]
            /\ clhist' = [clhist EXCEPT ![p] =
                  [@ EXCEPT
                     !.afterRevoked = \E q \in Procs \ {p} :
                        pc[q] = "done" /\ job[q] = job[p] /\ clhist[q].revokedOk]]
            /\ UNCHANGED result
  /\ UNCHANGED <<pureVars, progressDto, config, prov, response, deleteVolumeArgs, body,
                 faulty, op, store, job, key, machine, volume, revokeCalls, destroyMachineCalls,
                 deleteVolumeCalls, sigGood, hist>>

\* the first saveWorkerJob, status 'cleanup'
CleanupMark(p) ==
  /\ pc[p] = "cleanupMark"
  /\ store' = [store EXCEPT ![job[p]] = snap[p]]
  /\ pc' = [pc EXCEPT ![p] =
        IF snap[p].tempApiKeyId # "" THEN "cleanupRevoke"
        ELSE IF snap[p].machineId # "" /\ snap[p].volumeId # "" THEN "cleanupMachine"
        ELSE "cleanupFinal"]
  /\ UNCHANGED <<pureVars, progressDto, config, prov, response, deleteVolumeArgs, body,
                 faulty, op, snap, job, result, key, machine, volume, revokeCalls,
                 destroyMachineCalls, deleteVolumeCalls, sigGood, clhist, hist>>

\* a cleanupWorkerJob with one try/catch around all its teardown calls: a
\* failed revocation goes straight to the final save
CleanupRevokeSkipRest(p) ==
  /\ pc[p] = "cleanupRevoke"
  /\ \E ok \in TeardownAnswers :
       /\ key' = [key EXCEPT ![job[p]] = IF ok THEN "revoked" ELSE @]
       /\ clhist' = [clhist EXCEPT ![p] = [@ EXCEPT !.calledRevoke = TRUE, !.revokedOk = ok]]
       /\ hist' = [hist EXCEPT !.apiFailed = @ \/ ~ok]
       /\ pc' = [pc EXCEPT ![p] =
             IF ok /\ snap[p].machineId # "" /\ snap[p].volumeId # "" THEN "cleanupMachine"
             ELSE "cleanupFinal"]
  /\ revokeCalls' = [revokeCalls EXCEPT ![job[p]] = @ + 1]
  /\ UNCHANGED <<pureVars, progressDto, config, prov, response, deleteVolumeArgs, body,
                 faulty, op, store, snap, job, result, machine, volume, destroyMachineCalls,
                 deleteVolumeCalls, sigGood>>

\* apiKeyRepository.delete inside its try/catch
CleanupRevoke(p) ==
  /\ pc[p] = "cleanupRevoke"
  /\ \E ok \in TeardownAnswers :
       /\ key' = [key EXCEPT ![job[p]] = IF ok THEN "revoked" ELSE @]
       /\ clhist' = [clhist EXCEPT ![p] = [@ EXCEPT !.calledRevoke = TRUE, !.revokedOk = ok]]
       /\ hist' = [hist EXCEPT !.apiFailed = @ \/ ~ok]
  /\ revokeCalls' = [revokeCalls EXCEPT ![job[p]] = @ + 1]
  /\ pc' = [pc EXCEPT ![p] =
        IF snap[p].machineId # "" /\ snap[p].volumeId # "" THEN "cleanupMachine"
        ELSE "cleanupFinal"]
  /\ UNCHANGED <<pureVars, progressDto, config, prov, response, deleteVolumeArgs, body,
                 faulty, op, store, snap, job, result, machine, volume, destroyMachineCalls,
                 deleteVolumeCalls, sigGood>>

\* a cleanupWorker without the try/catch around destroyMachine: the failure
\* leaves cleanupWorkerJob as its error
CleanupDestroyMachineRethrow(p) ==
  /\ pc[p] = "cleanupMachine"
  /\ \E ok \in TeardownAnswers :
       /\ machine' = [machine EXCEPT ![job[p]] = IF ok THEN "gone" ELSE @]
       /\ hist' = [hist EXCEPT !.apiFailed = @ \/ ~ok]
       /\ pc' = [pc EXCEPT ![p] = IF ok THEN "cleanupVolume" ELSE "done"]
       /\ result' = [result EXCEPT ![p] = IF ok THEN @ ELSE "Fly API error"]
  /\ destroyMachineCalls' = [destroyMachineCalls EXCEPT ![job[p]] = @ + 1]
  /\ UNCHANGED <<pureVars, progressDto, config, prov, response, deleteVolumeArgs, body,
                 faulty, op, store, snap, job, key, volume, revokeCalls,
                 deleteVolumeCalls, sigGood, clhist>>

\* FlyWorkerService.cleanupWorker: destroyMachine (stop, then force delete)
\* inside its try/catch
CleanupDestroyMachine(p) ==
  /\ pc[p] = "cleanupMachine"
  /\ \E ok \in TeardownAnswers :
       /\ machine' = [machine EXCEPT ![job[p]] = IF ok THEN "gone" ELSE @]
       /\ hist' = [hist EXCEPT !.apiFailed = @ \/ ~ok]
  /\ destroyMachineCalls' = [destroyMachineCalls EXCEPT ![job[p]] = @ + 1]
  /\ pc' = [pc EXCEPT ![p] = "cleanupVolume"]
  /\ UNCHANGED <<pureVars, progressDto, config, prov, response, deleteVolumeArgs, body,
                 faulty, op, store, snap, job, result, key, volume, revokeCalls,
                 deleteVolumeCalls, sigGood, clhist>>

\* FlyWorkerService.cleanupWorker: after the settling delay, deleteVolume inside
\* its try/catch; the API refuses to delete a volume attached to a live machine
CleanupDeleteVolume(p) ==
  /\ pc[p] = "cleanupVolume"
  /\ \E ok \in (IF machine[job[p]] = "live" THEN {FALSE} ELSE TeardownAnswers) :
       /\ volume' = [volume EXCEPT ![job[p]] = IF ok THEN "gone" ELSE @]
       /\ hist' = [hist EXCEPT !.apiFailed = @ \/ ~ok]
  /\ deleteVolumeCalls' = [deleteVolumeCalls EXCEPT ![job[p]] = @ + 1]
  /\ deleteVolumeArgs' = deleteVolumeArgs \cup {snap[p].volumeId}
  /\ pc' = [pc EXCEPT ![p] = "cleanupFinal"]
  /\ UNCHANGED <<pureVars, progressDto, config, prov, response, body,
                 faulty, op, store, snap, job, result, key, machine, revokeCalls,
                 destroyMachineCalls, sigGood, clhist>>

\* the last saveWorkerJob; cleanupWorkerJob returns
CleanupFinalSave(p) ==
  /\ pc[p] = "cleanupFinal"
  /\ store' = [store EXCEPT ![job[p]] = snap[p]]
  /\ pc' = [pc EXCEPT ![p] = "done"]
  /\ result' = CleanupReturn(p)
  /\ snap' = [snap EXCEPT ![p] = NoJob]
  /\ UNCHANGED <<pureVars, progressDto, config, prov, response, deleteVolumeArgs, body,
                 faulty, op, job, key, machine, volume, revokeCalls, destroyMachineCalls,
                 deleteVolumeCalls, sigGood, clhist, hist>>

\* ------------------------------------------- the requests served in order
\* every request has returned and no background cleanup is running
NothingInFlight == \A q \in Procs : pc[q] \in {"idle", "done"}

WebhookReceiveInOrder(i) ==
  /\ FreeSlot(i)
  /\ NothingInFlight
  /\ \E request \in RequestsInOrder : WebhookArrive(i, request)

CancelGetInOrder(k) ==
  /\ NothingInFlight
  /\ CancelGet(k)

\* ------------------------------------------------------------------ Next
Next ==
  \/ \E j \in Jobs : StartBegin(j)
  \/ StartCreateVolume
  \/ StartCreateMachine
  \/ StartRollbackVolume
  \/ StartFinalSave
  \/ StartFailSave
  \/ StartFailRevoke
  \/ \E i \in RequestProcs : WebhookReceive(i)
  \/ \E i \in RequestProcs : WebhookSave(i)
  \/ \E k \in RequestProcs : CancelGet(k)
  \/ \E k \in RequestProcs : CancelSave(k)
  \/ \E p \in RequestProcs : CleanupGet(p)
  \/ \E p \in RequestProcs : CleanupMark(p)
  \/ \E p \in RequestProcs : CleanupRevoke(p)
  \/ \E p \in RequestProcs : CleanupDestroyMachine(p)
  \/ \E p \in RequestProcs : CleanupDeleteVolume(p)
  \/ \E p \in RequestProcs : CleanupFinalSave(p)

Spec == Init /\ [][Next]_vars

SpecFaulty == InitFaulty /\ [][Next]_vars

\* the same handlers when a request arrives only after the one before it, and
\* the cleanup it started, have ended
NextInOrder ==
  \/ \E j \in Jobs : StartBegin(j)
  \/ StartCreateVolume
  \/ StartCreateMachine
  \/ StartRollbackVolume
  \/ StartFinalSave
  \/ StartFailSave
  \/ StartFailRevoke
  \/ \E i \in RequestProcs : WebhookReceiveInOrder(i)
  \/ \E i \in RequestProcs : WebhookSave(i)
  \/ \E k \in RequestProcs : CancelGetInOrder(k)
  \/ \E k \in RequestProcs : CancelSave(k)
  \/ \E p \in RequestProcs : CleanupGet(p)
  \/ \E p \in RequestProcs : CleanupMark(p)
  \/ \E p \in RequestProcs : CleanupRevoke(p)
  \/ \E p \in RequestProcs : CleanupDestroyMachine(p)
  \/ \E p \in RequestProcs : CleanupDeleteVolume(p)
  \/ \E p \in RequestProcs : CleanupFinalSave(p)

SpecInOrder == Init /\ [][NextInOrder]_vars

\* ------------------------------------ the worker's reports, served in order
\* createTemporaryApiKey: the id of the key that was stored and its secret token
ApiKeySecretOf(j) == "token-" \o j
createTemporaryApiKey(j) == [id |-> KeyIdOf(j), secret |-> ApiKeySecretOf(j)]

\* a report from the download phase: the worker is at item `current` of 10, in `file`
DownloadReport(j, current, file) ==
  [ Payload(j, "downloading", <<>>) EXCEPT
      !.progress = [current |-> current, total |-> 10, currentFile |-> file] ]

\* the reports of a worker: the progress reports of above; reports in which the
\* label and the counter change one without the other; reports with one or both
\* byte counters, with an album count, with error strings
Reports ==
  ProgressPayloads
  \cup UNION { { DownloadReport(j, 3, FileOf(5)),
                 DownloadReport(j, 5, FileOf(3)),
                 [DownloadReport(j, 3, FileOf(3)) EXCEPT !.bytesDownloaded = 7, !.totalBytes = 9],
                 [DownloadReport(j, 3, FileOf(3)) EXCEPT !.bytesDownloaded = 8],
                 [DownloadReport(j, 3, FileOf(3)) EXCEPT !.albumsFound = 2],
                 [DownloadReport(j, 3, FileOf(3)) EXCEPT !.errors = <<"e1", "e2">>] }
               : j \in Jobs }

\* what arrives: the requests of above and the signed reports of the job's worker
RequestsWithReports ==
  Requests
  \cup { <<p, WorkerSignature(p)>> : p \in {q \in Reports : machine[q.jobId] # "none"} }

WebhookReceiveReport(i) ==
  /\ FreeSlot(i)
  /\ NothingInFlight
  /\ \E request \in RequestsWithReports : WebhookArrive(i, request)

\* job.progress of a stored record
ProgressOf(stored) ==
  [ phase |-> stored.phase,
    current |-> stored.current,
    total |-> stored.total,
    currentFile |-> stored.currentFile,
    bytesDownloaded |-> stored.bytesDownloaded,
    totalBytes |-> stored.totalBytes,
    albumsFound |-> stored.albumsFound,
    photosImported |-> stored.photosImported,
    errors |-> stored.errors,
    events |-> stored.events ]

\* a progress endpoint that hands out the record itself
getWorkerJobProgressWholeJob(stored) ==
  IF stored = NoJob THEN [phase |-> "null"] ELSE stored

\* getWorkerJobProgress on what getWorkerJob found; without a record it falls
\* back to the in-memory jobs, which know no worker job
getWorkerJobProgress(stored) ==
  IF stored = NoJob THEN [phase |-> "null"] ELSE ProgressOf(stored)

\* GET import/:id/progress
GetProgress(j) ==
  /\ progressDto' = getWorkerJobProgress(store[j])
  /\ UNCHANGED <<pureVars, store, pc, snap, op, job, result, key, machine, volume,
                 revokeCalls, destroyMachineCalls, deleteVolumeCalls, sigGood, clhist,
                 faulty, hist, config, body, prov, response, deleteVolumeArgs>>

NextReports ==
  \/ \E j \in Jobs : StartBegin(j)
  \/ StartCreateVolume
  \/ StartCreateMachine
  \/ StartRollbackVolume
  \/ StartFinalSave
  \/ StartFailSave
  \/ StartFailRevoke
  \/ \E i \in RequestProcs : WebhookReceiveReport(i)
  \/ \E i \in RequestProcs : WebhookSave(i)
  \/ \E k \in RequestProcs : CancelGetInOrder(k)
  \/ \E k \in RequestProcs : CancelSave(k)
  \/ \E p \in RequestProcs : CleanupGet(p)
  \/ \E p \in RequestProcs : CleanupMark(p)
  \/ \E p \in RequestProcs : CleanupRevoke(p)
  \/ \E p \in RequestProcs : CleanupDestroyMachine(p)
  \/ \E p \in RequestProcs : CleanupDeleteVolume(p)
  \/ \E p \in RequestProcs : CleanupFinalSave(p)
  \/ \E j \in AllJobIds : GetProgress(j)

SpecReports == Init /\ [][NextReports]_vars

\* ------------------------------------------------------ addEvent on its own
\* the system configuration with which Start would go ahead
CompleteConfig ==
  [ tokens |-> TRUE, oauthEnabled |-> TRUE, clientId |-> TRUE,
    clientSecret |-> TRUE, serverUrl |-> TRUE ]

\* the timelines a job starts with: the one of the record first saved, and the
\* one Start saves when the worker runs
InitTimeline ==
  /\ HandlersInit(FALSE, {CompleteConfig})
  /\ timeline \in { InitialJob("j1").events,
                     addEvent(addEvent(InitialJob("j1").events,
                                       "success", "Worker started successfully"),
                              "info", "Preparing to download files...") }
  /\ inserted = timeline
  /\ obj = <<>> /\ out = <<>> /\ fileSizes = <<>> /\ sizeGb = UndefNum
  /\ TwoJobsIdle /\ FlyIdle /\ LocalIdle

\* this.addEvent(job, type, message), the message numbered to tell the events apart
AddEventCall ==
  /\ Len(inserted) < MaxInsertions
  /\ LET type == IF Len(inserted) % 2 = 0 THEN "download" ELSE "error"
         message == "event " \o ToString(Len(inserted) + 1)
     IN /\ timeline' = addEvent(timeline, type, message)
        /\ inserted' = Append(inserted, [type |-> type, message |-> message])
  /\ UNCHANGED <<handlerVars, twoJobVars, flyVars, localVars, obj, out, fileSizes, sizeGb>>

NextTimeline == AddEventCall

SpecTimeline == InitTimeline /\ [][NextTimeline]_vars

\* ----------------------------------------------- stableStringify on its own
\* JSON values as they reach JSON.stringify: a number, an array with its items
\* in order, or an object with its keys in the order they were set
JNum(n) == [t |-> "num", n |-> n, kv |-> <<>>, items |-> <<>>]
JArr(items) == [t |-> "arr", n |-> 0, kv |-> <<>>, items |-> items]
JObj(kv) == [t |-> "obj", n |-> 0, kv |-> kv, items |-> <<>>]

\* the keys in use, in the order Array.prototype.sort puts them
SortedKeys == <<"a", "b", "p", "q">>

\* a replacer that leaves the keys of an object as they come
KeepKeyOrder(kv) == kv

\* Object.keys(value).sort().reduce(...): the entries of an object by sorted key
RECURSIVE SortKeysFrom(_, _)
SortKeysFrom(kv, n) ==
  IF n > Len(SortedKeys) THEN <<>>
  ELSE SelectSeq(kv, LAMBDA pr : pr[1] = SortedKeys[n]) \o SortKeysFrom(kv, n + 1)

SortKeys(kv) == SortKeysFrom(kv, 1)

\* JSON.stringify(obj, replacer): objects are replaced by their sorted copy at
\* every level, arrays and numbers are returned as they are
RECURSIVE stableStringifyJson(_)
RECURSIVE JoinItems(_)
RECURSIVE JoinEntries(_)
stableStringifyJson(v) ==
  IF v.t = "num" THEN ToString(v.n)
  ELSE IF v.t = "arr" THEN "[" \o JoinItems(v.items) \o "]"
  ELSE "{" \o JoinEntries(SortKeys(v.kv)) \o "}"

JoinItems(items) ==
  IF items = <<>> THEN ""
  ELSE stableStringifyJson(Head(items))
       \o (IF Len(items) > 1 THEN "," \o JoinItems(Tail(items)) ELSE "")

JoinEntries(kv) ==
  IF kv = <<>> THEN ""
  ELSE "'" \o Head(kv)[1] \o "':" \o stableStringifyJson(Head(kv)[2])
       \o (IF Len(kv) > 1 THEN "," \o JoinEntries(Tail(kv)) ELSE "")

\* the values given to it: objects of two keys, set in either order, whose
\* values are numbers, arrays (of numbers, of an object) or objects
JLeaves == { JNum(n) : n \in 1..MaxNum }

JInner ==
  { JObj(<<<<"a", x>>, <<"b", JNum(1)>>>>) : x \in JLeaves }
  \cup { JObj(<<<<"b", JNum(1)>>, <<"a", x>>>>) : x \in JLeaves }

JArrays ==
  { JArr(<<JNum(1), JNum(2)>>), JArr(<<JNum(2), JNum(1)>>),
    JArr(<<JObj(<<<<"a", JNum(1)>>, <<"b", JNum(2)>>>>)>>),
    JArr(<<JObj(<<<<"b", JNum(2)>>, <<"a", JNum(1)>>>>)>>) }

JNested == JLeaves \cup JInner \cup JArrays

JPayloads ==
  { JObj(<<<<"p", x>>, <<"q", y>>>>) : x \in JNested, y \in JNested }
  \cup { JObj(<<<<"q", y>>, <<"p", x>>>>) : x \in JNested, y \in JNested }

InitStringify ==
  /\ HandlersInit(FALSE, {CompleteConfig})
  /\ obj \in JPayloads \X JPayloads
  /\ out = <<>>
  /\ timeline = <<>> /\ inserted = <<>> /\ fileSizes = <<>> /\ sizeGb = UndefNum
  /\ TwoJobsIdle /\ FlyIdle /\ LocalIdle

StableStringifyCall ==
  /\ out = <<>>
  /\ out' = <<stableStringifyJson(obj[1]), stableStringifyJson(obj[2])>>
  /\ UNCHANGED <<handlerVars, twoJobVars, flyVars, localVars, obj, timeline, inserted, fileSizes, sizeGb>>

NextStringify == StableStringifyCall

SpecStringify == InitStringify /\ [][NextStringify]_vars

\* ----------------------------------------- calculateVolumeSizeGb on its own
GiB == 1024 * 1024 * 1024

\* a number of bytes, gib * GiB + rest with rest < GiB, so that the sums of
\* real file sizes are computed exactly, as they are in a double below 2^53
Bytes(gib, rest) == [gib |-> gib, rest |-> rest]

\* sum + size
AddBytes(a, b) ==
  LET r == a.rest + b.rest
  IN IF r >= GiB THEN Bytes(a.gib + b.gib + 1, r - GiB) ELSE Bytes(a.gib + b.gib, r)

\* fileSizes.reduce((sum, size) => sum + size, 0)
RECURSIVE ReduceSum(_, _)
ReduceSum(sizes, sum) ==
  IF sizes = <<>> THEN sum ELSE ReduceSum(Tail(sizes), AddBytes(sum, Head(sizes)))

\* Math.floor(totalBytes / GiB)
FloorGiB(totalBytes) == totalBytes.gib

\* Math.ceil(totalBytes / GiB)
CeilGiB(totalBytes) == totalBytes.gib + (IF totalBytes.rest > 0 THEN 1 ELSE 0)

MathMin(a, b) == IF a < b THEN a ELSE b
MathMax(a, b) == IF a > b THEN a ELSE b

calculateVolumeSizeGb(sizes) ==
  LET totalBytes == ReduceSum(sizes, Bytes(0, 0))
      gb == CeilGiB(totalBytes) + 5
  IN MathMax(10, MathMin(100, gb))

\* the file sizes tried: nothing, one byte, around 1 GiB, around the totals at
\* which the result reaches its minimum and its maximum, and far above them
FileSizeChoices ==
  { Bytes(0, 0), Bytes(0, 1), Bytes(0, GiB - 1), Bytes(1, 0), Bytes(4, 1), Bytes(5, 0),
    Bytes(5, 1), Bytes(47, 0), Bytes(94, 0), Bytes(95, 0), Bytes(95, 1), Bytes(200, 0) }

InitSizing ==
  /\ HandlersInit(FALSE, {CompleteConfig})
  /\ fileSizes \in UNION { [1..n -> FileSizeChoices] : n \in 0..MaxFiles }
  /\ sizeGb = UndefNum
  /\ timeline = <<>> /\ inserted = <<>> /\ obj = <<>> /\ out = <<>>
  /\ TwoJobsIdle /\ FlyIdle /\ LocalIdle

CalculateVolumeSizeCall ==
  /\ sizeGb = UndefNum
  /\ sizeGb' = calculateVolumeSizeGb(fileSizes)
  /\ UNCHANGED <<handlerVars, twoJobVars, flyVars, localVars, fileSizes, timeline, inserted, obj, out>>

NextSizing == CalculateVolumeSizeCall

SpecSizing == InitSizing /\ [][NextSizing]_vars

TypeOK ==
  /\ \A j \in AllJobIds : store[j] = NoJob \/ store[j].status \in FlyWorkerJobStatus
  /\ \A j \in Jobs : key[j] \in {"none", "live", "revoked"}

\* =================================================================== claims
Quiescent == \A p \in Procs : pc[p] \in {"idle", "done"}

Accepted(i) == op[i] = "webhook" /\ (pc[i] = "webhookSave" \/ result[i] = "ok")

\* the lifecycle of section 4.3: one step forward, or the shortcut to failed
ForwardStep(a, b) ==
  \/ a = b
  \/ <<a, b>> \in { <<"none", "pending">>, <<"none", "creating">>,
                    <<"pending", "creating">>, <<"creating", "downloading">>,
                    <<"downloading", "processing">>, <<"processing", "complete">>,
                    <<"processing", "failed">>, <<"complete", "cleanup">>,
                    <<"failed", "cleanup">> }
  \/ (a \in {"pending", "creating", "downloading", "processing"} /\ b = "failed")

\* C1: the persisted status of a job is always one of the seven statuses and
\* every change of it is a forward step of the lifecycle pending -> creating ->
\* downloading -> processing -> {complete | failed} -> cleanup, the only
\* shortcut being the one to failed.
C1_StatusOnlyMovesForward ==
  [][\A j \in Jobs :
       /\ store'[j] # NoJob => store'[j].status \in FlyWorkerJobStatus
       /\ ForwardStep(store[j].status, store'[j].status)]_vars

\* C2: when Cancel read the job while Start's provisioning call was in flight,
\* then once Start and every request have returned, a machine or volume that
\* was created has been passed to a destroy call.
C2_CancelDuringStartDestroysWhatWasCreated ==
  (hist.cancelMidProvision /\ Quiescent) =>
    \A j \in Jobs :
      /\ machine[j] # "none" => destroyMachineCalls[j] > 0
      /\ volume[j] # "none" => deleteVolumeCalls[j] > 0

\* C3: when Start succeeded, a terminal webhook or a Cancel came afterwards, no
\* API call failed and nothing is left to run, the job's credential is revoked
\* and its machine and volume are destroyed.
C3_TerminalPathReleasesEverything ==
  (Quiescent /\ result[StartProc] = "ok" /\ hist.terminalAfterStart /\ ~hist.apiFailed) =>
    \A j \in Jobs : key[j] = "revoked" /\ machine[j] = "gone" /\ volume[j] = "gone"

\* C4: a webhook request for an unknown job id, or whose signature is not the
\* HMAC of its own payload under the job's secret, ends at once and leaves the
\* store, the request's neighbours and the provisioned resources as they were:
\* no record changes, none is created, no cleanup is started.
C4_RejectedWebhookChangesNothing ==
  [][\A i \in RequestProcs :
       (pc[i] = "idle" /\ op'[i] = "webhook"
          /\ (store[job'[i]] = NoJob \/ ~sigGood'[i]))
       => /\ store' = store
          /\ world' = world
          /\ pc'[i] = "done"
          /\ result'[i] \notin {"none", "ok"}
          /\ \A q \in Procs \ {i} : pc'[q] = pc[q] /\ snap'[q] = snap[q]]_vars

C4_Witness ==
  \E i \in RequestProcs :
    /\ op[i] = "webhook" /\ pc[i] = "done" /\ ~sigGood[i]
    /\ result[i] = "Invalid signature"
    /\ store[job[i]] # NoJob /\ store[job[i]].status = "downloading"

\* C5: a webhook request is accepted exactly when its signature is
\* HMAC-SHA256(secret of the job, canonicalize(payload)); every other signature,
\* a one-bit mutation of that one included, is rejected.
C5_AcceptsExactlyTheHmac ==
  \A i \in RequestProcs :
    op[i] = "webhook" =>
      /\ sigGood[i] <=> Accepted(i)
      /\ ~sigGood[i] => (pc[i] = "done" /\ result[i] \notin {"none", "ok"})

C5_Witness ==
  \E i, k \in RequestProcs :
    /\ Accepted(i) /\ sigGood[i] /\ result[i] = "ok"
    /\ op[k] = "webhook" /\ ~sigGood[k] /\ job[k] = job[i]
    /\ result[k] = "Invalid signature"

\* C6: a webhook request that is rejected fails with the authentication error
\* when the job is known and the signature is absent or invalid, and with the
\* not-found error when the job has no record.
C6_RejectionErrors ==
  [][\A i \in RequestProcs :
       (pc[i] = "idle" /\ op'[i] = "webhook" /\ pc'[i] = "done")
       => /\ snap'[i] = NoJob
          /\ IF store[job'[i]] = NoJob
               THEN result'[i] \in {"Job not found", "Missing webhook signature"}
               ELSE result'[i] \in {"Invalid signature", "Missing webhook signature"}]_vars

\* C7: a cleanup that begins after another cleanup of the same job has
\* returned with its revocation successful does not invoke the revocation
\* again, does not raise, and leaves the status it found, cleanup.
C7_SecondCleanupDoesNotRevokeAgain ==
  \A p \in RequestProcs :
    clhist[p].afterRevoked =>
      /\ ~clhist[p].calledRevoke
      /\ pc[p] = "done" => result[p] = "ok"
      /\ (pc[p] = "done" /\ Quiescent) => store[job[p]].status = "cleanup"

\* C8: when the cleanups of a job are all started by webhooks, however often a
\* terminal webhook is delivered, the revocation, the machine destroy and the
\* volume delete are each invoked at most once.
C8_DuplicateWebhookTearsDownOnce ==
  (\A p \in RequestProcs : op[p] # "cancel") =>
    \A j \in Jobs :
      /\ revokeCalls[j] <= 1
      /\ destroyMachineCalls[j] <= 1
      /\ deleteVolumeCalls[j] <= 1

\* C9: a Cancel for an unknown job, or for a job whose status is complete,
\* failed or cleanup, returns successfully at once and changes no record and
\* makes no revocation or destroy call.
C9_CancelOfTerminalJobIsNoOp ==
  [][\A k \in RequestProcs :
       (pc[k] = "idle" /\ op'[k] = "cancel"
          /\ (store[job'[k]] = NoJob \/ store[job'[k]].status \in TerminalStatus))
       => /\ pc'[k] = "done"
          /\ result'[k] = "ok"
          /\ store' = store
          /\ world' = world]_vars

\* C10: a Cancel that reads a job in a non-terminal status makes a record with
\* status failed and "Cancelled by user" appended to the errors, persists it
\* before its cleanup starts, and returns only when that cleanup has made its
\* final write.
C10_CancelFailsPersistsThenCleansUp ==
  [][\A k \in RequestProcs :
       /\ (pc[k] = "idle" /\ op'[k] = "cancel" /\ store[job'[k]] # NoJob
             /\ store[job'[k]].status \notin TerminalStatus)
          => /\ pc'[k] = "cancelSave"
             /\ snap'[k] = [store[job'[k]] EXCEPT
                              !.status = "failed",
                              !.errors = Append(@, "Cancelled by user")]
             /\ store' = store /\ world' = world /\ result'[k] = "none"
       /\ (op[k] = "cancel" /\ clhist[k].cancelledLive /\ pc[k] = "cancelSave"
             /\ pc'[k] # pc[k])
          => /\ store'[job[k]] = snap[k]
             /\ pc'[k] = "cleanupGet"
             /\ world' = world /\ result'[k] = "none"
       /\ (op[k] = "cancel" /\ clhist[k].cancelledLive /\ result'[k] # result[k])
          => /\ pc[k] = "cleanupFinal" /\ pc'[k] = "done"
             /\ clhist[k].calledRevoke
             /\ store'[job[k]].status = "cleanup"
             /\ result'[k] = "ok"]_vars

C10_Witness ==
  \E k \in RequestProcs :
    /\ op[k] = "cancel" /\ clhist[k].cancelledLive
    /\ pc[k] = "done" /\ result[k] = "ok"
    /\ "Cancelled by user" \in {store[job[k]].errors[n] : n \in DOMAIN store[job[k]].errors}

\* createWorker called createMachine and got an error
MachineCreationFailed == prov.createMachineCalls > 0 /\ prov.machineId = ""

\* C11: when createMachine fails after createVolume returned a volume id, then
\* from the moment the catch block of createWorker is left, and so before Start
\* returns the error to its caller, deleteVolume has been invoked once, with the
\* id createVolume returned and with no other id.
C11_RollbackDeletesTheCreatedVolume ==
  /\ pc[StartProc] = "rollbackVolume" => result[StartProc] = "none"
  /\ (MachineCreationFailed /\ pc[StartProc] # "rollbackVolume") =>
       /\ prov.volumeId = VolumeIdOf(job[StartProc])
       /\ deleteVolumeArgs = {prov.volumeId}
       /\ deleteVolumeCalls[job[StartProc]] = 1

C11_Witness ==
  /\ MachineCreationFailed
  /\ result[StartProc] = "ProvisioningError"
  /\ deleteVolumeArgs = {VolumeIdOf("j1")}

\* C12: when provisioning fails, Start persists its record with status failed
\* and one errors entry more than the record it created; it then invokes the
\* revocation of the job's temporary key, which is revoked, and returns the
\* provisioning error; unless a Cancel of the job ran meanwhile, the record is
\* then still failed with that one entry.
C12_FailedStartPersistsRevokesPropagates ==
  [][LET j == job[StartProc]
     IN /\ (pc[StartProc] = "failSave" /\ pc'[StartProc] # "failSave")
             => /\ store'[j].status = "failed"
                /\ Len(store'[j].errors) = Len(InitialJob(j).errors) + 1
                /\ SubSeq(store'[j].errors, 1, Len(InitialJob(j).errors)) = InitialJob(j).errors
                /\ pc'[StartProc] = "failRevoke"
                /\ result'[StartProc] = "none"
        /\ (pc[StartProc] = "failRevoke" /\ pc'[StartProc] # "failRevoke")
             => /\ revokeCalls'[j] = revokeCalls[j] + 1
                /\ key'[j] = "revoked"
                /\ pc'[StartProc] = "done"
                /\ result'[StartProc] = "ProvisioningError"
                /\ (\A k \in RequestProcs : ~(op[k] = "cancel" /\ job[k] = j))
                     => (store'[j].status = "failed" /\ Len(store'[j].errors) = 1)]_vars

C12_Witness ==
  /\ result[StartProc] = "ProvisioningError"
  /\ store["j1"] # NoJob /\ store["j1"].status = "failed"
  /\ store["j1"].errors = <<"Failed to create worker">>
  /\ key["j1"] = "revoked" /\ revokeCalls["j1"] = 1

\* C13: when createWorker succeeds, the record Start persists has status
\* downloading and the machine and volume ids the Fly API returned, its
\* timeline is longer than that of the record first saved, and Start returns
\* the job id with those same ids.
C13_SuccessfulStartPersistsAndReturnsRefs ==
  [][LET j == job[StartProc]
     IN (pc[StartProc] = "finalSave" /\ pc'[StartProc] # "finalSave")
          => /\ store'[j].status = "downloading"
             /\ store'[j].machineId = MachineIdOf(j) /\ machine[j] = "live"
             /\ store'[j].volumeId = VolumeIdOf(j) /\ volume[j] = "live"
             /\ Len(store'[j].events) > Len(InitialJob(j).events)
             /\ pc'[StartProc] = "done"
             /\ result'[StartProc] = "ok"
             /\ response' = [ id |-> j,
                              machineId |-> store'[j].machineId,
                              volumeId |-> store'[j].volumeId ]]_vars

C13_Witness ==
  /\ result[StartProc] = "ok"
  /\ response = [id |-> "j1", machineId |-> MachineIdOf("j1"), volumeId |-> VolumeIdOf("j1")]
  /\ store["j1"].status = "downloading"
  /\ store["j1"].machineId = response.machineId
  /\ store["j1"].volumeId = response.volumeId

\* C14: when the owner has no drive tokens, or OAuth is disabled or lacks its
\* client id or client secret, a Start that was called has failed with the
\* matching configuration error and has called neither createVolume nor
\* createMachine (and has stored no record and minted no key).
C14_MissingPrerequisitesFailBeforeProvisioning ==
  (pc[StartProc] # "idle"
     /\ (~config.tokens \/ ~config.oauthEnabled \/ ~config.clientId \/ ~config.clientSecret))
  => /\ pc[StartProc] = "done"
     /\ result[StartProc] =
          (IF ~config.tokens THEN "Google Drive not connected" ELSE "OAuth not configured")
     /\ prov = NoProv
     /\ \A j \in Jobs : volume[j] = "none" /\ machine[j] = "none"
                          /\ key[j] = "none" /\ store[j] = NoJob

C14_Witness ==
  /\ config.tokens /\ config.oauthEnabled /\ config.clientId /\ ~config.clientSecret
  /\ pc[StartProc] = "done" /\ result[StartProc] = "OAuth not configured"
  /\ prov.createVolumeCalls = 0 /\ prov.createMachineCalls = 0

\* C15: the timeline never holds more than 100 entries, and once more than 100
\* events have been inserted it holds exactly the last 100 of them, in the
\* order of insertion; up to 100 insertions it holds them all.
C15_TimelineKeepsTheLast100 ==
  /\ Len(timeline) <= 100
  /\ Len(inserted) > 100 =>
       timeline = SubSeq(inserted, Len(inserted) - 99, Len(inserted))
  /\ Len(inserted) <= 100 => timeline = inserted

C15_Witness ==
  /\ Len(inserted) = 103
  /\ Len(timeline) = 100
  /\ timeline[1] = inserted[4]
  /\ timeline[100] = inserted[103]

\* two values differ at most in the order of object keys, at any depth
KeysOf(kv) == { kv[n][1] : n \in DOMAIN kv }
ValueAt(kv, k) == kv[CHOOSE n \in DOMAIN kv : kv[n][1] = k][2]

RECURSIVE SameUpToKeyOrder(_, _)
SameUpToKeyOrder(x, y) ==
  IF x.t # y.t THEN FALSE
  ELSE IF x.t = "num" THEN x.n = y.n
  ELSE IF x.t = "arr"
    THEN /\ Len(x.items) = Len(y.items)
         /\ \A n \in DOMAIN x.items : SameUpToKeyOrder(x.items[n], y.items[n])
  ELSE /\ KeysOf(x.kv) = KeysOf(y.kv)
       /\ \A k \in KeysOf(x.kv) : SameUpToKeyOrder(ValueAt(x.kv, k), ValueAt(y.kv, k))

\* C16: stableStringify gives two payloads the same string when they differ
\* only in the order of object keys, at whatever depth, and different strings
\* when they differ otherwise, in particular in the order of an array's items.
C16_StringifyIgnoresKeyOrderOnly ==
  out # <<>> => (SameUpToKeyOrder(obj[1], obj[2]) <=> out[1] = out[2])

C16_Witness ==
  /\ out # <<>>
  /\ out[1] = out[2]
  /\ obj[1].kv[1][1] = "p" /\ obj[2].kv[1][1] = "q"
  /\ ValueAt(obj[1].kv, "p") # ValueAt(obj[2].kv, "p")
  /\ ValueAt(obj[1].kv, "q").t = "arr"

Clamp(x, lo, hi) == IF x < lo THEN lo ELSE IF x > hi THEN hi ELSE x

\* C17: for every list of file sizes the result is ceil(total / 1 GiB) + 5
\* clamped to 10..100: 10 for the empty list and for every total up to 5 GiB,
\* 11 one byte above, 99 at 94 GiB, and 100 from one byte above 94 GiB on.
C17_VolumeSizeIsTheClampedCeiling ==
  sizeGb # UndefNum =>
    LET total == ReduceSum(fileSizes, Bytes(0, 0))
        whole == IF total.rest = 0 THEN total.gib ELSE total.gib + 1
    IN /\ sizeGb = Clamp(whole + 5, 10, 100)
       /\ fileSizes = <<>> => sizeGb = 10
       /\ (total.gib < 5 \/ total = Bytes(5, 0)) => sizeGb = 10
       /\ total = Bytes(5, 1) => sizeGb = 11
       /\ total = Bytes(94, 0) => sizeGb = 99
       /\ (total.gib > 94 \/ (total.gib = 94 /\ total.rest > 0)) => sizeGb = 100

C17_Witness ==
  /\ Len(fileSizes) = 2
  /\ ReduceSum(fileSizes, Bytes(0, 0)) = Bytes(94, 1)
  /\ sizeGb = 100

\* C18: when the requests are served one after the other, a webhook that names
\* a stored job and carries its HMAC is taken up whatever was applied before
\* it, is answered without an error, and its save leaves in the record the
\* current and total it reported.
C18_LastAppliedWebhookWins ==
  [][\A i \in RequestProcs :
       /\ (pc[i] = "idle" /\ op'[i] = "webhook" /\ sigGood'[i])
            => /\ pc'[i] = "webhookSave"
               /\ result'[i] = "none"
               /\ snap'[i].current = body'[i].progress.current
       /\ (op[i] = "webhook" /\ pc[i] = "webhookSave" /\ pc'[i] # "webhookSave")
            => /\ result'[i] = "ok"
               /\ store'[job[i]].current = body[i].progress.current
               /\ store'[job[i]].total = body[i].progress.total]_vars

\* current 5 was applied, then current 3, and 3 is what the record holds
C18_Witness ==
  \E i, k \in RequestProcs :
    /\ i < k /\ job[i] = job[k]
    /\ op[i] = "webhook" /\ sigGood[i] /\ pc[i] = "done" /\ result[i] = "ok"
    /\ op[k] = "webhook" /\ sigGood[k] /\ pc[k] = "done" /\ result[k] = "ok"
    /\ store[job[k]].current = 3 /\ store[job[k]].total = 10
    /\ \E n, m \in DOMAIN store[job[k]].events :
         /\ n < m
         /\ store[job[k]].events[n].message = "Downloading " \o FileOf(5)
         /\ store[job[k]].events[m].message = "Downloading " \o FileOf(3)

\* the entries of a list
Entries(seq) == { seq[n] : n \in DOMAIN seq }

\* C19: when no Cancel is involved, the save of a webhook that read the job
\* after Start had stored its refs keeps every error and every timeline event
\* that the stored record holds at that moment, those contributed by another
\* webhook meanwhile included (the timeline being far below its cap).
C19_ConcurrentWebhooksAreSerialized ==
  [][\A i \in RequestProcs :
       ( /\ op[i] = "webhook" /\ pc[i] = "webhookSave" /\ pc'[i] # "webhookSave"
         /\ snap[i].machineId # ""
         /\ \A q \in RequestProcs : op[q] # "cancel" )
       => /\ Entries(store[job[i]].events) \subseteq Entries(store'[job[i]].events)
          /\ Entries(store[job[i]].errors) \subseteq Entries(store'[job[i]].errors)]_vars

\* the positions of cleanupWorkerJob after it found the record
CleanupSteps == {"cleanupMark", "cleanupRevoke", "cleanupMachine", "cleanupVolume", "cleanupFinal"}

\* C20: a cleanup that found the job's record goes from step to step whatever
\* the revocation, the machine destroy and the volume delete answer; it ends
\* only by its final save, which writes status cleanup, and the request that
\* ran it is answered with no error.
C20_CleanupEndsWithStatusCleanup ==
  [][\A p \in RequestProcs :
       /\ (pc[p] = "cleanupGet" /\ pc'[p] # pc[p] /\ store[job[p]] # NoJob)
            => pc'[p] = "cleanupMark"
       /\ (pc[p] \in CleanupSteps /\ pc'[p] # pc[p])
            => /\ pc'[p] \in CleanupSteps \cup {"done"}
               /\ result'[p] \in {result[p], "ok"}
               /\ pc'[p] = "done" =>
                    /\ pc[p] = "cleanupFinal"
                    /\ store'[job[p]].status = "cleanup"]_vars

C20_Witness ==
  \E p \in RequestProcs :
    /\ op[p] = "cancel" /\ pc[p] = "done" /\ result[p] = "ok"
    /\ store[job[p]] # NoJob /\ store[job[p]].status = "cleanup"
    /\ revokeCalls[job[p]] > 0 /\ key[job[p]] = "live"
    /\ destroyMachineCalls[job[p]] > 0 /\ machine[job[p]] = "live"
    /\ deleteVolumeCalls[job[p]] > 0 /\ volume[job[p]] = "live"

\* C21: the teardown steps of a cleanup do not depend on each other's outcome:
\* whatever the revocation answers, a cleanup whose record holds both refs goes
\* on to the machine destroy; whatever the machine destroy answers, it calls
\* destroyMachine once and goes on to the volume delete; and whatever that
\* answers, it calls deleteVolume once and goes on to the final save.
C21_TeardownStepsAreIndependent ==
  [][\A p \in RequestProcs :
       LET j == job[p]
           hasRefs == snap[p].machineId # "" /\ snap[p].volumeId # ""
       IN /\ (pc[p] = "cleanupRevoke" /\ pc'[p] # pc[p])
               => /\ revokeCalls'[j] = revokeCalls[j] + 1
                  /\ hasRefs => pc'[p] = "cleanupMachine"
          /\ (pc[p] = "cleanupMachine" /\ pc'[p] # pc[p])
               => /\ destroyMachineCalls'[j] = destroyMachineCalls[j] + 1
                  /\ pc'[p] = "cleanupVolume"
          /\ (pc[p] = "cleanupVolume" /\ pc'[p] # pc[p])
               => /\ deleteVolumeCalls'[j] = deleteVolumeCalls[j] + 1
                  /\ snap[p].volumeId \in deleteVolumeArgs'
                  /\ pc'[p] = "cleanupFinal"]_vars

\* the revocation failed, the machine destroy failed, and the volume delete
\* was still called
C21_Witness ==
  \E p \in RequestProcs :
    /\ pc[p] = "cleanupFinal"
    /\ clhist[p].calledRevoke /\ ~clhist[p].revokedOk /\ key[job[p]] = "live"
    /\ destroyMachineCalls[job[p]] = 1 /\ machine[job[p]] = "live"
    /\ deleteVolumeCalls[job[p]] = 1 /\ VolumeIdOf(job[p]) \in deleteVolumeArgs

\* C22: the save of a webhook with a terminal phase writes the merged record,
\* with the status of that phase, and answers the request successfully in the
\* same step, when its cleanup has yet to read the record and no teardown call
\* of it has been made; the answer given stays what it is whatever the cleanup
\* then meets.
C22_TerminalWebhookReturnsBeforeCleanup ==
  [][\A i \in RequestProcs :
       /\ (op[i] = "webhook" /\ pc[i] = "webhookSave" /\ pc'[i] # pc[i]
             /\ body[i].phase \in {"complete", "failed"})
            => /\ store'[job[i]] = snap[i]
               /\ store'[job[i]].status = body[i].phase
               /\ result'[i] = "ok"
               /\ pc'[i] = "cleanupGet"
               /\ world' = world
       /\ (op[i] = "webhook" /\ result[i] = "ok") => result'[i] = "ok"]_vars

\* the request was answered; its cleanup is under way and two of its calls failed
C22_Witness ==
  \E i \in RequestProcs :
    /\ op[i] = "webhook" /\ result[i] = "ok" /\ pc[i] = "cleanupVolume"
    /\ clhist[i].calledRevoke /\ ~clhist[i].revokedOk
    /\ destroyMachineCalls[job[i]] = 1 /\ machine[job[i]] = "live"

\* C27: the stored machineId and volumeId of a job are empty until Start saves
\* the ids createWorker returned, and once one of them is stored no later write
\* of the record changes it.
C27_RefsAreSetAtMostOnce ==
  [][\A j \in Jobs :
       /\ (store'[j] # NoJob /\ result'[StartProc] # "ok")
            => (store'[j].machineId = "" /\ store'[j].volumeId = "")
       /\ (store[j] # NoJob /\ store[j].machineId # "")
            => store'[j].machineId = store[j].machineId
       /\ (store[j] # NoJob /\ store[j].volumeId # "")
            => store'[j].volumeId = store[j].volumeId]_vars

\* a teardown call of the cleanup run by p has failed: its revocation reported
\* an error, or it is past its destroy calls and the machine or the volume of
\* the refs it holds is still there
TeardownFailedIn(p) ==
  \/ clhist[p].calledRevoke /\ ~clhist[p].revokedOk
  \/ /\ snap[p].machineId # "" /\ snap[p].volumeId # ""
     /\ (machine[job[p]] = "live" \/ volume[job[p]] = "live")

\* C29: no failure is dropped without a trace in the record: the save Start
\* makes after a provisioning failure puts an entry about it in errors, and the
\* final save of a cleanup in which a teardown call failed writes a record with
\* at least one entry more, in errors or in the timeline, than the record that
\* cleanup read.
C29_NoFailureIsSilentlyDropped ==
  [][/\ (pc[StartProc] = "failSave" /\ pc'[StartProc] # "failSave")
          => "Failed to create worker" \in Entries(store'[job[StartProc]].errors)
     /\ \A p \in RequestProcs :
          (pc[p] = "cleanupFinal" /\ pc'[p] = "done" /\ TeardownFailedIn(p))
          => \/ Len(store'[job[p]].errors) > Len(snap[p].errors)
             \/ Len(store'[job[p]].events) > Len(snap[p].events)]_vars

\* the save of an accepted webhook
SavesWebhook(i) == op[i] = "webhook" /\ pc[i] = "webhookSave" /\ pc'[i] # "webhookSave"

\* C23: the save of an accepted webhook whose payload has no bytesDownloaded
\* leaves the stored bytesDownloaded as it was, and likewise for totalBytes; a
\* byte counter the payload carries is stored as reported.
C23_AbsentByteCountersAreKept ==
  [][\A i \in RequestProcs :
       SavesWebhook(i) =>
         LET before == store[job[i]]
             after == store'[job[i]]
         IN /\ after.bytesDownloaded =
                 (IF body[i].bytesDownloaded = UndefNum THEN before.bytesDownloaded
                  ELSE body[i].bytesDownloaded)
            /\ after.totalBytes =
                 (IF body[i].totalBytes = UndefNum THEN before.totalBytes
                  ELSE body[i].totalBytes)]_vars

\* how often a string occurs in a list, and as the message of an error event
Occurrences(seq, e) == Cardinality({ n \in DOMAIN seq : seq[n] = e })
ErrorEvents(events, e) ==
  Cardinality({ n \in DOMAIN events : events[n].type = "error" /\ events[n].message = e })

IsPrefix(a, b) == Len(a) <= Len(b) /\ SubSeq(b, 1, Len(a)) = a

\* C24: when the operations are applied one after the other, every write of a
\* job's record keeps the errors it had as the beginning of the new list; the
\* save of an accepted webhook stores the old errors followed by the payload's
\* errors in their order, and for each of these strings the timeline gains as
\* many error events with that message as the payload has copies of it.
C24_ErrorsAreAppendOnly ==
  [][/\ \A j \in Jobs :
          store[j] # NoJob
          => (store'[j] # NoJob /\ IsPrefix(store[j].errors, store'[j].errors))
     /\ \A i \in RequestProcs :
          SavesWebhook(i) =>
            LET before == store[job[i]]
                after == store'[job[i]]
            IN /\ after.errors = before.errors \o body[i].errors
               /\ \A e \in Entries(body[i].errors) :
                    ErrorEvents(after.events, e) =
                      ErrorEvents(before.events, e) + Occurrences(body[i].errors, e)]_vars

\* two reports with errors were applied, then nothing is left to run
C24_Witness ==
  \E j \in Jobs :
    /\ store[j] # NoJob /\ Quiescent
    /\ store[j].errors = <<"e1", "e2", "e1", "e2">>
    /\ ErrorEvents(store[j].events, "e1") = 2
    /\ ErrorEvents(store[j].events, "e2") = 2

\* the events of one kind in a timeline
EventsOfType(events, type) == Cardinality({ n \in DOMAIN events : events[n].type = type })

\* C25: the save of an accepted webhook whose albumsFound is greater than the
\* albumsFound stored before it adds one album event to the timeline.
C25_MoreAlbumsAppendAnAlbumEvent ==
  [][\A i \in RequestProcs :
       ( /\ SavesWebhook(i)
         /\ body[i].albumsFound # UndefNum
         /\ body[i].albumsFound > store[job[i]].albumsFound )
       => EventsOfType(store'[job[i]].events, "album")
            = EventsOfType(store[job[i]].events, "album") + 1]_vars

\* C26: the save of an accepted webhook in phase downloading adds one download
\* event to the timeline when the payload's currentFile differs from the
\* currentFile stored before it, whether or not `current` changed, and adds none
\* when the two are the same, whether or not `current` changed.
C26_DownloadEventFollowsTheLabel ==
  [][\A i \in RequestProcs :
       (SavesWebhook(i) /\ body[i].phase = "downloading")
       => EventsOfType(store'[job[i]].events, "download")
            = EventsOfType(store[job[i]].events, "download")
              + (IF body[i].progress.currentFile # store[job[i]].currentFile THEN 1 ELSE 0)]_vars

StringFields ==
  {"jobId", "machineId", "volumeId", "status", "phase", "currentFile",
   "webhookSecret", "tempApiKeyId"}

StringsIn(r) ==
  { r[f] : f \in DOMAIN r \cap StringFields }
  \cup Entries(r.errors)
  \cup { r.events[n].message : n \in DOMAIN r.events }

\* C30: a stored job record holds the id of the job's temporary API key and
\* nowhere its secret token; and what the progress endpoint returns for a job
\* holds neither the job's webhook secret nor the secret token of its key.
C30_SecretsStayOutOfRecordAndProgress ==
  /\ \A j \in Jobs :
       store[j] # NoJob
       => /\ store[j].tempApiKeyId = createTemporaryApiKey(j).id
          /\ createTemporaryApiKey(j).secret \notin StringsIn(store[j])
  /\ progressDto.phase \notin {"none", "null"}
       => \A j \in Jobs :
            /\ SecretOf(j) \notin StringsIn(progressDto)
            /\ createTemporaryApiKey(j).secret \notin StringsIn(progressDto)

\* the progress of a job whose key is in use was handed out
C30_Witness ==
  \E j \in Jobs :
    /\ store[j] # NoJob /\ key[j] = "live" /\ machine[j] = "live"
    /\ store[j].webhookSecret = SecretOf(j)
    /\ progressDto = ProgressOf(store[j])
    /\ progressDto.phase = "processing"

\* C31: a job whose status is complete or failed moves on to cleanup by
\* itself: whenever no request and no background task has a step left to take,
\* so that only a new call from outside could change anything, no stored job is
\* in status complete or failed.
C31_TerminalStatusGoesOnToCleanup ==
  Quiescent => \A j \in Jobs : store[j] = NoJob \/ store[j].status \notin {"complete", "failed"}

\* C32: the record the save of an accepted webhook writes has the payload's
\* phase as its status and as its phase, for each of the four phases and
\* whatever status the stored record had.
C32_StatusAndPhaseMirrorThePayload ==
  [][\A i \in RequestProcs :
       SavesWebhook(i)
       => /\ body[i].phase \in Phases
          /\ store'[job[i]].status = body[i].phase
          /\ store'[job[i]].phase = body[i].phase]_vars

\* a job that was cancelled and cleaned up is in processing again
C32_Witness ==
  \E i \in RequestProcs :
    /\ op[i] = "webhook" /\ pc[i] = "done" /\ result[i] = "ok"
    /\ store[job[i]].status = "processing" /\ store[job[i]].phase = "processing"
    /\ "Cancelled by user" \in Entries(store[job[i]].errors)
    /\ Quiescent

\* C35: from the moment Start turns to the provisioning client, and so
\* whenever a volume or a machine of the job has been created, the store holds
\* a record of the job that names the temporary key minted for it; when Start
\* is about to call createVolume that record has status creating (no Cancel
\* having come in) and no call to the Fly API has been made.
C35_RecordIsStoredBeforeProvisioning ==
  \A j \in Jobs :
    /\ ( \/ volume[j] # "none"
         \/ machine[j] # "none"
         \/ (job[StartProc] = j /\ pc[StartProc] \in {"createVolume", "createMachine"}) )
       => /\ store[j] # NoJob
          /\ store[j].tempApiKeyId = KeyIdOf(j)
          /\ key[j] # "none"
    /\ (job[StartProc] = j /\ pc[StartProc] = "createVolume")
       => /\ prov = NoProv
          /\ (\A k \in RequestProcs : op[k] # "cancel") => store[j].status = "creating"

\* the volume exists, the machine does not yet, the record is the first one saved
C35_Witness ==
  /\ pc[StartProc] = "createMachine"
  /\ volume["j1"] = "live" /\ machine["j1"] = "none"
  /\ store["j1"] = InitialJob("j1")
  /\ store["j1"].tempApiKeyId = KeyIdOf("j1") /\ key["j1"] = "live"

\* C36: whenever the progress endpoint answers for a job whose stored status
\* is failed, by a webhook or by a Cancel or by a provisioning failure in
\* Start, the progress it returns has phase failed.
C36_ProgressShowsTheFailure ==
  [][\A j \in Jobs :
       ( /\ progressDto' # progressDto
         /\ store[j] # NoJob /\ store[j].status = "failed"
         /\ progressDto' = getWorkerJobProgress(store[j]) )
       => progressDto'.phase = "failed"]_vars

\* C37: once Start has returned, with a result or with any error, the key it
\* minted is named by a stored record of the job or has been revoked.
C37_NoCredentialIsLeftWithoutARecord ==
  \A j \in Jobs :
    (job[StartProc] = j /\ pc[StartProc] = "done" /\ key[j] # "none")
    => \/ key[j] = "revoked"
       \/ (store[j] # NoJob /\ store[j].tempApiKeyId = KeyIdOf(j))

\* a write that keeps what the record held: its errors, its events, its counters
KeepsWhatWasStored(before, after) ==
  /\ Entries(before.errors) \subseteq Entries(after.errors)
  /\ Entries(before.events) \subseteq Entries(after.events)
  /\ after.current = before.current
  /\ after.total = before.total

\* C38: when no Cancel is involved, the final save of Start and the final save
\* of a cleanup keep the errors, the events and the counters the stored record
\* holds at that moment, those an accepted webhook wrote since Start created
\* the machine, or since the cleanup made its first save, included.
C38_WebhookUpdateIsNotUndone ==
  [][(\A q \in RequestProcs : op[q] # "cancel")
     => /\ (pc[StartProc] = "finalSave" /\ pc'[StartProc] # "finalSave")
             => KeepsWhatWasStored(store[job[StartProc]], store'[job[StartProc]])
        /\ \A p \in RequestProcs :
             (pc[p] = "cleanupFinal" /\ pc'[p] = "done")
             => KeepsWhatWasStored(store[job[p]], store'[job[p]])]_vars

\* ---------------------------------------------------------------------------
\* FlyWorkerService.cleanupWorker on its own, request by request.  A job's
\* cleanup can run more than once and the runs can overlap (a terminal webhook
\* delivered twice, or Cancel next to a terminal webhook), so up to
\* MaxCleanupCalls calls of cleanupWorker work on the same machine and volume.
\* Each step runs from one await to the next: the Fly API answers a request,
\* and the continuation runs up to the next request it sends (written to
\* the call's entry of flyLog).  The API may refuse any request; it always refuses to delete a
\* volume whose machine still exists.
\* ---------------------------------------------------------------------------

MaxCleanupCalls == 2
CleanupCalls == 1..MaxCleanupCalls

\* setTimeout(resolve, 2000) in cleanupWorker; model time advances by TimerTick
SettleDelay == 2000
TimerTick == 1000

MachineStates == {"started", "stopped", "destroyed"}

NewCall ==
  [pc |-> "stopInFlight", stop |-> "none", delete |-> "none", destroyMachine |-> "none",
   deleteVolume |-> "none", warnings |-> 0]

InitCleanupWorker ==
  /\ HandlersInit(FALSE, {CompleteConfig})
  /\ FunctionsIdle /\ TwoJobsIdle /\ LocalIdle
  /\ flyMachine \in MachineStates
  /\ flyVolume = "created"
  /\ cw = [c \in CleanupCalls |-> NoCall]
  /\ flyLog = [c \in CleanupCalls |-> <<>>]
  /\ elapsed = [c \in CleanupCalls |-> UndefNum]

\* cleanupWorker(machineId, volumeId) is called: it calls destroyMachine, which
\* sends the stop request
CleanupWorkerCall(c) ==
  /\ cw[c] = NoCall
  /\ cw' = [cw EXCEPT ![c] = NewCall]
  /\ flyLog' = [flyLog EXCEPT ![c] = Append(@, "POST stop")]
  /\ UNCHANGED <<handlerVars, functionVars, twoJobVars, localVars, flyMachine, flyVolume, elapsed>>

\* a single try block around both requests: a failed stop ends destroyMachine
DestroyMachineStopAnsweredOneTry(c) ==
  /\ cw[c].pc = "stopInFlight"
  /\ \E ok \in BOOLEAN :
       /\ (flyMachine = "destroyed") => ~ok
       /\ flyMachine' = IF ok /\ flyMachine = "started" THEN "stopped" ELSE flyMachine
       /\ IF ok
            THEN /\ cw' = [cw EXCEPT ![c].pc = "deleteInFlight", ![c].stop = "ok"]
                 /\ flyLog' = [flyLog EXCEPT ![c] = Append(@, "DELETE machine")]
                 /\ elapsed' = elapsed
            ELSE /\ cw' = [cw EXCEPT ![c].pc = "settling", ![c].stop = "error",
                                      ![c].destroyMachine = "thrown", ![c].warnings = @ + 2]
                 /\ flyLog' = flyLog
                 /\ elapsed' = [elapsed EXCEPT ![c] = 0]
  /\ UNCHANGED <<handlerVars, functionVars, twoJobVars, localVars, flyVolume>>

\* destroyMachine: the stop request is answered; a failure is logged at debug
\* level only, and in either case the forced delete request is sent
DestroyMachineStopAnswered(c) ==
  /\ cw[c].pc = "stopInFlight"
  /\ \E ok \in BOOLEAN :
       /\ (flyMachine = "destroyed") => ~ok
       /\ flyMachine' = IF ok /\ flyMachine = "started" THEN "stopped" ELSE flyMachine
       /\ cw' = [cw EXCEPT ![c].pc = "deleteInFlight", ![c].stop = IF ok THEN "ok" ELSE "error"]
  /\ flyLog' = [flyLog EXCEPT ![c] = Append(@, "DELETE machine")]
  /\ UNCHANGED <<handlerVars, functionVars, twoJobVars, localVars, flyVolume, elapsed>>

\* destroyMachine: the delete request is answered.  On failure destroyMachine
\* warns and rethrows; cleanupWorker catches and warns, and in either case
\* calls setTimeout
DestroyMachineDeleteAnswered(c) ==
  /\ cw[c].pc = "deleteInFlight"
  /\ \E ok \in BOOLEAN :
       /\ flyMachine' = IF ok THEN "destroyed" ELSE flyMachine
       /\ cw' = IF ok
                  THEN [cw EXCEPT ![c].pc = "settling", ![c].delete = "ok",
                                  ![c].destroyMachine = "returned"]
                  ELSE [cw EXCEPT ![c].pc = "settling", ![c].delete = "error",
                                  ![c].destroyMachine = "thrown", ![c].warnings = @ + 2]
  /\ elapsed' = [elapsed EXCEPT ![c] = 0]
  /\ UNCHANGED <<handlerVars, functionVars, twoJobVars, localVars, flyVolume, flyLog>>

\* time passes for every call that waits for its timer
TimePasses ==
  /\ \E c \in CleanupCalls : cw[c].pc = "settling" /\ elapsed[c] < SettleDelay
  /\ elapsed' = [c \in CleanupCalls |->
                   IF cw[c].pc = "settling" /\ elapsed[c] < SettleDelay
                     THEN elapsed[c] + TimerTick
                     ELSE elapsed[c]]
  /\ UNCHANGED <<handlerVars, functionVars, twoJobVars, localVars, flyMachine, flyVolume, cw, flyLog>>

\* the timer fires, no earlier than its delay: deleteVolume sends its request
CleanupWorkerDeleteVolume(c) ==
  /\ cw[c].pc = "settling"
  /\ elapsed[c] >= SettleDelay
  /\ flyLog' = [flyLog EXCEPT ![c] = Append(@, "DELETE volume")]
  /\ cw' = [cw EXCEPT ![c].pc = "volumeInFlight"]
  /\ UNCHANGED <<handlerVars, functionVars, twoJobVars, localVars, flyMachine, flyVolume, elapsed>>

\* deleteVolume: the request is answered; a failure is warned about and
\* cleanupWorker returns normally
DeleteVolumeAnswered(c) ==
  /\ cw[c].pc = "volumeInFlight"
  /\ \E ok \in BOOLEAN :
       /\ (flyMachine # "destroyed" \/ flyVolume = "destroyed") => ~ok
       /\ flyVolume' = IF ok THEN "destroyed" ELSE flyVolume
       /\ cw' = IF ok
                  THEN [cw EXCEPT ![c].pc = "returned", ![c].deleteVolume = "ok"]
                  ELSE [cw EXCEPT ![c].pc = "returned", ![c].deleteVolume = "error",
                                  ![c].warnings = @ + 1]
  /\ UNCHANGED <<handlerVars, functionVars, twoJobVars, localVars, flyMachine, flyLog, elapsed>>

\* auto_destroy: the machine's process exits and Fly destroys the machine
MachineExits ==
  /\ flyMachine = "started"
  /\ flyMachine' = "destroyed"
  /\ UNCHANGED <<handlerVars, functionVars, twoJobVars, localVars, flyVolume, cw, flyLog, elapsed>>

NextCleanupWorker ==
  \/ \E c \in CleanupCalls : CleanupWorkerCall(c)
  \/ \E c \in CleanupCalls : DestroyMachineStopAnswered(c)
  \/ \E c \in CleanupCalls : DestroyMachineDeleteAnswered(c)
  \/ TimePasses
  \/ \E c \in CleanupCalls : CleanupWorkerDeleteVolume(c)
  \/ \E c \in CleanupCalls : DeleteVolumeAnswered(c)
  \/ MachineExits

SpecCleanupWorker == InitCleanupWorker /\ [][NextCleanupWorker]_vars

\* the requests one call of cleanupWorker has sent, in order
SentBy(c) == flyLog[c]

\* a call of destroyMachine is between its first request and its last answer
DestroyingMachine(c) == cw[c].pc \in {"stopInFlight", "deleteInFlight"}

\* C33: in destroyMachine a failure of the stop request is swallowed and the
\* delete request is still sent, while a failure of the delete request is
\* rethrown to the caller: once the stop request is answered, whatever the
\* answer, the delete request has been sent, and destroyMachine throws exactly
\* when its delete request failed.
C33_StopFailureSwallowedDeleteFailureThrown ==
  \A c \in CleanupCalls :
    /\ (cw[c].pc # "idle" /\ cw[c].stop # "none") =>
          /\ Len(SentBy(c)) >= 2
          /\ SubSeq(SentBy(c), 1, 2) = <<"POST stop", "DELETE machine">>
    /\ (cw[c].pc # "idle" /\ cw[c].destroyMachine # "none") =>
          /\ cw[c].delete # "none"
          /\ (cw[c].destroyMachine = "thrown") <=> (cw[c].delete = "error")

C33_Witness ==
  /\ cw[1].pc = "returned"
  /\ cw[1].stop = "error"
  /\ cw[1].delete = "ok"
  /\ cw[1].destroyMachine = "returned"
  /\ cw[2].pc = "returned"
  /\ cw[2].stop = "ok"
  /\ cw[2].destroyMachine = "thrown"

\* within one call of cleanupWorker the volume delete request is sent only
\* after that call's destroyMachine has settled, either way, and after that
\* call's settling delay
VolumeDeleteAfterOwnDestroyAndDelay ==
  \A c \in CleanupCalls :
    (cw[c].pc # "idle" /\ \E k \in 1..Len(SentBy(c)) : SentBy(c)[k] = "DELETE volume") =>
       /\ cw[c].destroyMachine # "none"
       /\ elapsed[c] >= SettleDelay
       /\ SentBy(c) = <<"POST stop", "DELETE machine", "DELETE volume">>

\* C34: the volume delete request of a cleanup is sent only after the machine
\* destroy attempt has finished and the settling delay has elapsed, and never
\* while a machine destroy of the same job is under way: at the step that
\* sends it, no call of destroyMachine for the job is in progress.
C34_VolumeDeleteNeverNextToMachineDestroy ==
  [][ \A c \in CleanupCalls :
        (cw[c].pc = "settling" /\ cw'[c].pc = "volumeInFlight") =>
           /\ cw[c].destroyMachine # "none"
           /\ elapsed[c] >= SettleDelay
           /\ \A d \in CleanupCalls : ~DestroyingMachine(d) ]_vars

\* ---------------------------------------------------------------------------
\* Two jobs side by side: both were started, each has its own record and its
\* own webhookSecret, and webhook requests arrive one after the other.  A
\* request names any job and carries a signature computed with either job's
\* secret, over its own payload or over the same report of the other job.
\* ---------------------------------------------------------------------------

MaxCrossRequests == 3

BothJobs == {"j1", "j2"}

\* the record of a job whose worker is running
RunningJob(j) ==
  [ StartedJobNoRefs(j) EXCEPT !.machineId = MachineIdOf(j), !.volumeId = VolumeIdOf(j) ]

CrossPayloads ==
  { Payload(j, phase, <<>>) :
      j \in BothJobs \cup {UnknownJob}, phase \in {"processing", "complete", "failed"} }

\* the signatures either worker can produce for a request with payload p
CrossSignatures(p) ==
  { Hmac(SecretOf(k), stableStringify(p)) : k \in BothJobs }
  \cup { Hmac(SecretOf(k), stableStringify([p EXCEPT !.jobId = k])) : k \in BothJobs }
  \cup { AbsentSignature }

\* getWorkerJob(jobId)
GetWorkerJobOfTwo(j) == IF j \in DOMAIN records THEN records[j] ELSE NoJob

InitTwoJobs ==
  /\ HandlersInit(FALSE, {CompleteConfig})
  /\ FunctionsIdle /\ FlyIdle /\ LocalIdle
  /\ records = [j \in BothJobs |-> RunningJob(j)]
  /\ lastWebhook = NoWebhook
  /\ webhooksServed = 0

\* receiveWorkerWebhook + handleWorkerWebhook, from the request to its answer
HandleWebhookOfTwo ==
  /\ webhooksServed < MaxCrossRequests
  /\ \E payload \in CrossPayloads : \E signature \in CrossSignatures(payload) :
       LET stored == GetWorkerJobOfTwo(payload.jobId)
           answer == WebhookCheck(signature, payload, stored)
       IN /\ records' = IF answer = "ok"
                           THEN [records EXCEPT ![payload.jobId] = MergeProgress(stored, payload)]
                           ELSE records
          /\ lastWebhook' = [payload |-> payload, signature |-> signature, answer |-> answer]
  /\ webhooksServed' = webhooksServed + 1
  /\ UNCHANGED <<handlerVars, functionVars, flyVars, localVars>>

\* the cleanup a terminal phase has started marks the record of its job
CleanupOfTwo ==
  /\ \E j \in BothJobs :
       /\ records[j].status \in {"complete", "failed"}
       /\ records' = [records EXCEPT ![j] = CleanupJob(@)]
  /\ UNCHANGED <<handlerVars, functionVars, flyVars, localVars, lastWebhook, webhooksServed>>

NextTwoJobs == HandleWebhookOfTwo \/ CleanupOfTwo

SpecTwoJobs == InitTwoJobs /\ [][NextTwoJobs]_vars

\* the secret a signature was computed with is the one of the job the payload names
SignedWithSecretOfNamedJob(w) ==
  /\ w.signature # AbsentSignature
  /\ w.signature.secret = SecretOf(w.payload.jobId)

\* C39: a webhook changes only the record of the job its payload names, and
\* only when its signature was computed with that job's secret: a request
\* signed with another job's secret is answered "Invalid signature" and
\* changes no record, and no request changes the record of another job.
C39_WebhookChangesOnlyItsOwnJob ==
  [][ (webhooksServed' = webhooksServed + 1) =>
        LET w == lastWebhook'
        IN /\ \A j \in BothJobs : j # w.payload.jobId => records'[j] = records[j]
           /\ (records' # records) => (w.answer = "ok" /\ SignedWithSecretOfNamedJob(w))
           /\ (w.answer = "ok") => SignedWithSecretOfNamedJob(w)
           /\ (w.payload.jobId \in BothJobs /\ w.signature # AbsentSignature
                 /\ ~SignedWithSecretOfNamedJob(w)) => w.answer = "Invalid signature" ]_vars

C39_Witness ==
  /\ lastWebhook # NoWebhook
  /\ lastWebhook.payload.jobId = "j2"
  /\ lastWebhook.signature = Hmac(SecretOf("j1"), stableStringify(lastWebhook.payload))
  /\ lastWebhook.answer = "Invalid signature"
  /\ records["j1"].status = "processing"
  /\ records["j2"] = RunningJob("j2")

\* ---------------------------------------------------------------------------
\* The in-memory import (no Fly worker): createImportJob / createImportJobFromDrive
\* put an ImportJob into this.jobs and start processImportJob in the
\* background; cancelJob may arrive at any await of it.  Each action runs from
\* one await to the next.
\* ---------------------------------------------------------------------------

MaxDriveFiles == 2

NoError == ""

\* the ImportJob both create functions build; driveFiles = 0 is an upload
NewImportJob(n) ==
  [ status |-> "pending",
    phase |-> "downloading",
    current |-> 0,
    total |-> n,
    errors |-> <<>>,
    tempApiKeyId |-> "",
    driveFiles |-> n,
    aborted |-> FALSE ]

InitLocal ==
  /\ HandlersInit(FALSE, {CompleteConfig})
  /\ FunctionsIdle /\ TwoJobsIdle /\ FlyIdle
  /\ localJob = NoJob
  /\ proc = NoProc
  /\ immichGo = "none"
  /\ cancelPc = "idle"

\* an exception leaves the try block: the finally clause awaits cleanupJob
Throw(message) == [pc |-> "finally", i |-> 0, thrown |-> message]

\* phase 2 begins: no look at the abort signal; createTemporaryApiKey is awaited
BeginProcessing(j) ==
  [ j EXCEPT !.status = "processing", !.phase = "processing", !.current = 0, !.total = 0 ]

\* the head of the download loop at index i, reached with i < driveFiles
LoopHead(j, i) ==
  IF j.aborted
    THEN <<j, Throw("Import cancelled")>>
    ELSE <<[j EXCEPT !.current = i + 1], [pc |-> "download", i |-> i, thrown |-> NoError]>>

\* createImportJob / createImportJobFromDrive: jobs.set, and processImportJob
\* runs up to its first await (mkdir)
CreateLocalJob ==
  /\ localJob = NoJob
  /\ \E n \in 0..MaxDriveFiles : localJob' = NewImportJob(n)
  /\ proc' = [pc |-> "mkdir", i |-> 0, thrown |-> NoError]
  /\ UNCHANGED <<handlerVars, functionVars, twoJobVars, flyVars, immichGo, cancelPc>>

\* mkdir returned
MkdirDone ==
  /\ proc.pc = "mkdir"
  /\ IF localJob.driveFiles > 0
       THEN /\ localJob' = [localJob EXCEPT !.status = "downloading", !.phase = "downloading"]
            /\ proc' = [proc EXCEPT !.pc = "getTokens"]
       ELSE /\ localJob' = BeginProcessing(localJob)
            /\ proc' = [proc EXCEPT !.pc = "createKey"]
  /\ UNCHANGED <<handlerVars, functionVars, twoJobVars, flyVars, immichGo, cancelPc>>

\* getGoogleDriveTokens returned: the tokens, or null
TokensReturned ==
  /\ proc.pc = "getTokens"
  /\ \E connected \in BOOLEAN :
       IF connected
         THEN /\ localJob' = LoopHead(localJob, 0)[1]
              /\ proc' = LoopHead(localJob, 0)[2]
         ELSE /\ localJob' = localJob
              /\ proc' = Throw("Google Drive not connected")
  /\ UNCHANGED <<handlerVars, functionVars, twoJobVars, flyVars, immichGo, cancelPc>>

\* downloadFromDrive settled: on success the loop goes to its next index, where
\* the abort signal is looked at, or ends and phase 2 begins
DownloadSettled ==
  /\ proc.pc = "download"
  /\ \E ok \in BOOLEAN :
       IF ~ok
         THEN /\ localJob' = localJob
              /\ proc' = Throw("Failed to download file")
         ELSE IF proc.i + 1 < localJob.driveFiles
           THEN /\ localJob' = LoopHead(localJob, proc.i + 1)[1]
                /\ proc' = LoopHead(localJob, proc.i + 1)[2]
           ELSE /\ localJob' = BeginProcessing(localJob)
                /\ proc' = [proc EXCEPT !.pc = "createKey"]
  /\ UNCHANGED <<handlerVars, functionVars, twoJobVars, flyVars, immichGo, cancelPc>>

\* createTemporaryApiKey returned
LocalKeyCreated ==
  /\ proc.pc = "createKey"
  /\ localJob' = [localJob EXCEPT !.tempApiKeyId = "key-local"]
  /\ proc' = [proc EXCEPT !.pc = "getServerUrl"]
  /\ UNCHANGED <<handlerVars, functionVars, twoJobVars, flyVars, immichGo, cancelPc>>

\* getServerUrl returned; runImmichGo spawns immich-go and only then adds its
\* abort listener
ImmichGoSpawned ==
  /\ proc.pc = "getServerUrl"
  /\ immichGo' = "running"
  /\ proc' = [proc EXCEPT !.pc = "runImmichGo"]
  /\ UNCHANGED <<handlerVars, functionVars, twoJobVars, flyVars, localJob, cancelPc>>

\* immich-go exits by itself; its close event is still to be delivered
ImmichGoExits ==
  /\ immichGo = "running"
  /\ \E code \in {0, 1} : immichGo' = IF code = 0 THEN "exited0" ELSE "exited1"
  /\ UNCHANGED <<handlerVars, functionVars, twoJobVars, flyVars, localJob, proc, cancelPc>>

\* the close event: code 0 resolves, and the job is marked complete; anything
\* else rejects
ImmichGoClosed ==
  /\ proc.pc = "runImmichGo"
  /\ immichGo \in {"exited0", "exited1", "killed"}
  /\ IF immichGo = "exited0"
       THEN /\ localJob' = [localJob EXCEPT !.phase = "complete", !.status = "complete"]
            /\ proc' = [proc EXCEPT !.pc = "finally"]
       ELSE /\ localJob' = localJob
            /\ proc' = Throw("immich-go failed")
  /\ immichGo' = "closed"
  /\ UNCHANGED <<handlerVars, functionVars, twoJobVars, flyVars, cancelPc>>

\* cleanupJob of the finally clause returned; an exception reaches the catch
\* of the create function
FinallyDone ==
  /\ proc.pc = "finally"
  /\ localJob' = IF proc.thrown # NoError
                    THEN [localJob EXCEPT !.status = "failed", !.errors = Append(@, proc.thrown)]
                    ELSE localJob
  /\ proc' = [proc EXCEPT !.pc = "done"]
  /\ UNCHANGED <<handlerVars, functionVars, twoJobVars, flyVars, immichGo, cancelPc>>

\* cancelJob: abort() runs the listeners added so far (the kill of a running
\* immich-go), the job is marked failed, and cleanupJob is awaited
CancelLocalJob ==
  /\ cancelPc = "idle"
  /\ localJob # NoJob
  /\ localJob' = [localJob EXCEPT !.aborted = TRUE, !.status = "failed",
                                    !.errors = Append(@, "Cancelled by user")]
  /\ immichGo' = IF immichGo = "running" /\ ~localJob.aborted THEN "killed" ELSE immichGo
  /\ cancelPc' = "cleanup"
  /\ UNCHANGED <<handlerVars, functionVars, twoJobVars, flyVars, proc>>

\* cancelJob: cleanupJob returned
CancelLocalDone ==
  /\ cancelPc = "cleanup"
  /\ cancelPc' = "done"
  /\ UNCHANGED <<handlerVars, functionVars, twoJobVars, flyVars, localJob, proc, immichGo>>

NextLocal ==
  \/ CreateLocalJob
  \/ MkdirDone
  \/ TokensReturned
  \/ DownloadSettled
  \/ LocalKeyCreated
  \/ ImmichGoSpawned
  \/ ImmichGoExits
  \/ ImmichGoClosed
  \/ FinallyDone
  \/ CancelLocalJob
  \/ CancelLocalDone

SpecLocal == InitLocal /\ [][NextLocal]_vars

\* cancelJob has run for the job
CancelledLocally ==
  /\ localJob # NoJob
  /\ \E k \in 1..Len(localJob.errors) : localJob.errors[k] = "Cancelled by user"

\* C40: once cancelJob has been called for a job of the in-memory import, the
\* job's status does not become complete: no step of a cancelled job sets the
\* status to complete.
C40_CancelledJobNeverCompletes ==
  [][ (CancelledLocally /\ localJob.status # "complete") => localJob'.status # "complete" ]_vars

====
